---- MODULE Spec2Model ----
(***************************************************************************)
(* A model of the telemetry aggregation layer of the Mission Control       *)
(* server (src/unnamed/part_010, the Express server with the /api router). *)
(* Every endpoint rebuilds its answer from the sources (CLI output, JSON   *)
(* files, directories, the clock); the sources are the state, and one      *)
(* action per route handler computes the response the handler sends.       *)
(***************************************************************************)
EXTENDS Integers, Sequences, FiniteSets, TLC

VARIABLES
    now,            \* the clock: epoch instant read by new Date()
    tz,             \* offset of the host's local time from UTC
    cronCli,        \* outcome of `openclaw cron list --json` (safeExec)
    cronFile,       \* ~/.openclaw/cron/jobs.json
    salesDb,        \* the sales-agent leads.db as seen by loadSalesAgentDbLeads
    leadsFile,      \* geo-audit/data/leads.json
    batchFiles,     \* prospect-*.json files, in the order loadProspectBatchLeads reads them
    paymentsFile,   \* geo-audit/data/payments.json
    metricsFile,    \* data/business-metrics.json
    auditDir,       \* geo-audit/data/cache/ai-audits
    agentDirs,      \* workspace/agents and the sales-agent data directories
    logDir,         \* ~/.openclaw/logs
    host,           \* what /api/system reads: df, the sessions command, drafts
    services,       \* how the gateway and ollama answer an HTTP request
    pgrep,          \* how `pgrep -if openclaw` ends (child_process.exec)
    statusReq,      \* the /api/status request in flight: its probes and timers
    response        \* the response of the request handled last, until it is sent

vars == <<now, tz, cronCli, cronFile, salesDb, leadsFile, batchFiles,
          paymentsFile, metricsFile, auditDir, agentDirs, logDir, host,
          services, pgrep, statusReq, response>>

clockVars   == <<now, tz>>
cronVars    == <<cronCli, cronFile>>
leadVars    == <<salesDb, leadsFile, batchFiles>>
revenueVars == <<paymentsFile, metricsFile>>
statusVars  == <<services, pgrep, statusReq>>
restVars    == <<agentDirs, logDir, host, statusVars>>

-----------------------------------------------------------------------------
(* JavaScript values.  A value carries its typeof tag; an object is a      *)
(* record of its properties, a property holding Undef being absent.        *)

Undef     == [t |-> "undefined"]
Null      == [t |-> "null"]
Bool(b)   == [t |-> "boolean", v |-> b]
Num(n)    == [t |-> "number", v |-> n]
Str(s)    == [t |-> "string", v |-> s]
\* a string in a date format Date.parse accepts, denoting the instant ms
IsoStr(ms) == [t |-> "string", iso |-> ms]
Arr(s)    == [t |-> "array", v |-> s]
Obj(f)    == [t |-> "object", f |-> f]

IsNullish(x) == x.t \in {"undefined", "null"}

\* a ?? b
Coalesce(a, b) == IF IsNullish(a) THEN b ELSE a

\* o.k for a non-nullish o (property access on null or undefined throws)
Get(o, k) == IF o.t = "object" /\ k \in DOMAIN o.f THEN o.f[k] ELSE Undef

\* Boolean(x && typeof x === 'object'): arrays and objects pass
IsObjectLike(x) == x.t \in {"object", "array"}

\* x === false
IsFalse(x) == x.t = "boolean" /\ ~x.v

\* String(x)
JsString(x) ==
    IF x.t = "string" THEN (IF "v" \in DOMAIN x THEN x.v ELSE "@" \o ToString(x.iso))
    ELSE IF x.t = "number" THEN ToString(x.v)
    ELSE IF x.t = "boolean" THEN (IF x.v THEN "true" ELSE "false")
    ELSE IF x.t = "null" THEN "null"
    ELSE IF x.t = "undefined" THEN "undefined"
    ELSE "[object Object]"

\* String.prototype.toLowerCase, on the strings the sources hold
toLowerCase(s) ==
    CASE s = "FAILED" -> "failed"
      [] s = "Success" -> "success"
      [] s = "Acme" -> "acme"
      [] s = "ACME" -> "acme"
      [] s = "A@X.COM" -> "a@x.com"
      [] s = "Acme Co" -> "acme co"
      [] s = "ACME CO LLC" -> "acme co llc"
      [] s = "Bob@Shop.Example" -> "bob@shop.example"
      [] s = "CS_TEST_9" -> "cs_test_9"
      [] s = "Bakery" -> "bakery"
      [] s = "Nightly" -> "nightly"
      [] s = "Digest" -> "digest"
      [] s = "Backup" -> "backup"
      [] s = "Sprint Worker" -> "sprint worker"
      [] s = "Sales Digest" -> "sales digest"
      [] s = "Prospect Sprint Worker" -> "prospect sprint worker"
      [] s = "Completed" -> "completed"
      [] s = "TIMEOUT" -> "timeout"
      [] s = ".LOG" -> ".log"
      [] OTHER -> s

\* sequences over S of length at most n
SeqsUpTo(S, n) == UNION {[1..k -> S] : k \in 0..n}

-----------------------------------------------------------------------------
(* Files and commands.                                                     *)

Missing    == [k |-> "missing"]
Unparsable == [k |-> "garbage"]
Json(v)    == [k |-> "json", v |-> v]

\* a file that is there when existsSync looks and that readFileSync cannot
\* read: removed in between, a directory, no permission
Unreadable == [k |-> "unreadable"]

\* the catch returns null, not the fallback
readJsonFile_NullFromCatch(file, fallback) ==
    IF file.k = "missing" THEN fallback
    ELSE IF file.k = "json" THEN file.v
    ELSE [t |-> "null"]

\* readJsonFile(path, fallback)
readJsonFile(file, fallback) == IF file.k = "json" THEN file.v ELSE fallback

EmptyObject == Obj(<<>>)

\* stdout of a command: blank (empty or whitespace), not JSON, or JSON text
Blank == [k |-> "blank"]

NoResponse == [endpoint |-> "none"]

\* a finite number beyond +-8.64e15, the range of Date: an epoch in
\* nanoseconds, 1e20
BeyondDate == [t |-> "number", beyond |-> TRUE]

\* line 83: new Date(value).toISOString() throws a RangeError
toIsoThrows(value) == value.t = "number" /\ "beyond" \in DOMAIN value

\* toIso(value)
toIso(value) ==
    IF toIsoThrows(value) THEN Null
    ELSE IF value.t = "number" THEN IsoStr(value.v)
    ELSE IF value.t = "string" /\ "iso" \in DOMAIN value THEN IsoStr(value.iso)
    ELSE Null

\* Date.parse of a string toIso produced
DateParse(s) == s.iso

-----------------------------------------------------------------------------
(* CronJobSource: normalizeCronStatus, readCronJobsFallback, loadCronJobs. *)

MaxJobs == 2

StateOf(runningAtMs, lastStatus, lastRunStatus, lastRunAtMs) ==
    Obj([runningAtMs |-> runningAtMs, lastStatus |-> lastStatus,
         lastRunStatus |-> lastRunStatus, lastRunAtMs |-> lastRunAtMs,
         nextRunAtMs |-> Undef])

RawJob(id, agentId, name, enabled, state) ==
    Obj([id |-> id, agentId |-> agentId, name |-> name, enabled |-> enabled,
         state |-> state])

JobPool ==
    { RawJob(Str("j1"), Undef, Str("Nightly"), Bool(FALSE),
             StateOf(Num(5), Str("ok"), Undef, Num(4))),
      RawJob(Str("j2"), Str("sales"), Undef, Bool(FALSE),
             StateOf(Undef, Undef, Str("failed"), Undef)),
      RawJob(Str("j3"), Str("main"), Str("Sprint Worker"), Bool(TRUE),
             StateOf(Num(7), Str("error"), Undef, Num(6))),
      RawJob(Str("j4"), Undef, Str("Digest"), Undef,
             StateOf(Undef, Str("FAILED"), Str("ok"), Num(3))),
      RawJob(Undef, Undef, Undef, Str("false"),
             StateOf(Str("5"), Undef, Str("Success"), Undef)) }

JobLists == SeqsUpTo(JobPool, MaxJobs)

lastStatusOf(job) ==
    LET state == Coalesce(Get(job, "state"), EmptyObject)
    IN  toLowerCase(JsString(
            Coalesce(Get(state, "lastStatus"),
                     Coalesce(Get(state, "lastRunStatus"), Str("")))))

isRunning(job) ==
    Get(Coalesce(Get(job, "state"), EmptyObject), "runningAtMs").t = "number"

\* the enabled test moved behind the run-state tests
normalizeCronStatus_EnabledLast(job) ==
    IF isRunning(job) THEN "running"
    ELSE IF lastStatusOf(job) \in {"ok", "success", "completed"} THEN "ok"
    ELSE IF lastStatusOf(job) \in {"error", "failed", "timeout"} THEN "error"
    ELSE IF IsFalse(Get(job, "enabled")) THEN "disabled"
    ELSE "idle"

\* the last outcome looked at before the in-progress marker
normalizeCronStatus_OutcomeFirst(job) ==
    IF IsFalse(Get(job, "enabled")) THEN "disabled"
    ELSE IF lastStatusOf(job) \in {"ok", "success", "completed"} THEN "ok"
    ELSE IF lastStatusOf(job) \in {"error", "failed", "timeout"} THEN "error"
    ELSE IF isRunning(job) THEN "running"
    ELSE "idle"

normalizeCronStatus(job) ==
    IF IsFalse(Get(job, "enabled")) THEN "disabled"
    ELSE IF isRunning(job) THEN "running"
    ELSE IF lastStatusOf(job) \in {"ok", "success", "completed"} THEN "ok"
    ELSE IF lastStatusOf(job) \in {"error", "failed", "timeout"} THEN "error"
    ELSE "idle"

\* the jobs of jobs.json; reading a property of a null document throws
readCronJobsFallbackThrows == readJsonFile(cronFile, EmptyObject).t = "null"

readCronJobsFallback ==
    LET raw  == readJsonFile(cronFile, EmptyObject)
        jobs == IF Get(raw, "jobs").t = "array" THEN Get(raw, "jobs").v ELSE <<>>
    IN  SelectSeq(jobs, IsObjectLike)

\* lines 236-247: the job list taken from the CLI output
cliJobs ==
    IF cronCli.ok /\ cronCli.stdout.k # "blank"
    THEN IF cronCli.stdout.k = "garbage" THEN <<>>
         ELSE LET parsed == cronCli.stdout.v
              IN  IF parsed.t = "array" THEN parsed.v
                  ELSE IF parsed.t = "null" THEN <<>>
                  ELSE IF Get(parsed, "jobs").t = "array"
                       THEN SelectSeq(Get(parsed, "jobs").v, IsObjectLike)
                       ELSE <<>>
    ELSE <<>>

\* lines 254-270: one raw job to the job of the response
mapCronJob(job) ==
    LET state   == Coalesce(Get(job, "state"), EmptyObject)
        payload == Coalesce(Get(job, "payload"), EmptyObject)
    IN  [ id        |-> JsString(Coalesce(Get(job, "id"), Str(""))),
          agentId   |-> JsString(Coalesce(Get(job, "agentId"), Str("main"))),
          name      |-> JsString(Coalesce(Get(job, "name"),
                                 Coalesce(Get(job, "id"), Str("Unnamed Job")))),
          enabled   |-> ~IsFalse(Get(job, "enabled")),
          model     |-> IF Get(payload, "model").t = "string"
                        THEN Get(payload, "model") ELSE Null,
          status    |-> normalizeCronStatus(job),
          lastRunAt |-> toIso(Get(state, "lastRunAtMs")),
          nextRunAt |-> toIso(Get(state, "nextRunAtMs")) ]

Threw == [threw |-> TRUE]

\* the fallback taken only when the command fails, not when it yields no job
loadCronJobs_FallbackOnFailureOnly ==
    LET useFile == ~cronCli.ok
        jobs    == IF useFile THEN readCronJobsFallback ELSE cliJobs
    IN  IF (useFile /\ readCronJobsFallbackThrows) \/ (\E i \in DOMAIN jobs : IsNullish(jobs[i]))
        THEN Threw
        ELSE [ threw  |-> FALSE,
               source |-> IF useFile THEN "file" ELSE "cli",
               jobs   |-> [i \in DOMAIN jobs |-> mapCronJob(jobs[i])],
               count  |-> Len(jobs) ]

loadCronJobs ==
    LET useFile == Len(cliJobs) = 0
        jobs    == IF useFile THEN readCronJobsFallback ELSE cliJobs
    IN  IF (useFile /\ readCronJobsFallbackThrows) \/ (\E i \in DOMAIN jobs : IsNullish(jobs[i]))
        THEN Threw
        ELSE [ threw  |-> FALSE,
               source |-> IF useFile THEN "file" ELSE "cli",
               jobs   |-> [i \in DOMAIN jobs |-> mapCronJob(jobs[i])],
               count  |-> Len(jobs) ]

\* what a route handler leaves: the JSON it sent, or nothing when it threw
Respond(endpoint, payload) ==
    IF payload.threw
    THEN [endpoint |-> endpoint, outcome |-> "threw"]
    ELSE [endpoint |-> endpoint, outcome |-> "ok", body |-> payload]

Answered(endpoint) == response.endpoint = endpoint /\ response.outcome = "ok"

CliJsonPool ==
    {Null, Arr(<<Null>>), Num(3), Obj([sessions |-> Arr(<<>>)])}
    \cup {Arr(l) : l \in JobLists}
    \cup {Obj([jobs |-> Arr(l)]) : l \in JobLists}
    \cup {Obj([jobs |-> Arr(<<Null, Num(1)>>)])}

CliPool ==
    [ok : BOOLEAN, stdout : {Blank, Unparsable} \cup {Json(v) : v \in CliJsonPool}]

CronFilePool ==
    {Missing, Unparsable, Json(Null), Json(Obj([jobs |-> Str("none")]))}
    \cup {Json(Obj([jobs |-> Arr(l)])) : l \in JobLists}
    \cup {Json(Obj([jobs |-> Arr(<<Null>> \o l)])) : l \in JobLists}

\* GET /api/crons
HandleCrons ==
    /\ response = NoResponse
    /\ response' = Respond("crons", loadCronJobs)
    /\ UNCHANGED <<restVars, clockVars, cronVars, leadVars, revenueVars, auditDir>>

\* GET /api/cron-status
HandleCronStatus ==
    /\ response = NoResponse
    /\ response' = Respond("cron-status", loadCronJobs)
    /\ UNCHANGED <<restVars, clockVars, cronVars, leadVars, revenueVars, auditDir>>

\* the response leaves the process
Send ==
    /\ response # NoResponse
    /\ response.outcome # "reading"
    /\ response' = NoResponse
    /\ UNCHANGED <<restVars, clockVars, cronVars, leadVars, revenueVars, auditDir>>

\* the automation tool stops answering
CliGoesDown ==
    /\ response = NoResponse
    /\ cronCli.ok
    /\ cronCli' = [cronCli EXCEPT !.ok = FALSE]
    /\ UNCHANGED <<restVars, clockVars, cronFile, leadVars, revenueVars, auditDir, response>>

\* jobs.json is removed
CronFileRemoved ==
    /\ response = NoResponse
    /\ cronFile # Missing
    /\ cronFile' = Missing
    /\ UNCHANGED <<restVars, clockVars, cronCli, leadVars, revenueVars, auditDir, response>>

\* child_process.exec could not start the command: no output captured
ExecOutcome(kind, stdout, stderr, message) ==
    [kind |-> kind, stdout |-> stdout, stderr |-> stderr, message |-> message]

ExecSpawnFailure == ExecOutcome("spawn-failure", Undef, Undef, Str("spawn /bin/sh ENOENT"))

\* no /api/status request in flight
NoStatusRequest == [pc |-> "idle"]

NoAgentDirs == agentDirs = [workspaces |-> Missing, salesData |-> FALSE]

NoLogs == logDir = Missing

\* the counters node:os reads: cores, 1-minute load in hundredths, memory
\* in MiB, uptime in seconds
OsCounters == [cores |-> 4, load |-> 150, totalMem |-> 16384, freeMem |-> 4096, uptime |-> 3700]

NoHost ==
    host = [df |-> [ok |-> FALSE, stdout |-> Blank],
            sessions |-> [ok |-> FALSE, stdout |-> Blank],
            drafts |-> Missing,
            os |-> OsCounters]

NoStatus ==
    /\ services = [gateway |-> "refusing", ollama |-> "refusing"]
    /\ pgrep = ExecSpawnFailure
    /\ statusReq = NoStatusRequest

\* the sources the later routes read, all of them unavailable
InitRest == NoAgentDirs /\ NoLogs /\ NoHost /\ NoStatus

InitOthersForCrons ==
    /\ InitRest
    /\ now = 0 /\ tz = 0
    /\ salesDb = Missing /\ leadsFile = Missing /\ batchFiles = <<>>
    /\ paymentsFile = Missing /\ metricsFile = Missing
    /\ auditDir = Missing

InitCrons ==
    /\ cronCli \in CliPool
    /\ cronFile \in CronFilePool
    /\ response = NoResponse
    /\ InitOthersForCrons

NextCrons == HandleCrons \/ HandleCronStatus \/ Send \/ CliGoesDown \/ CronFileRemoved

SpecCrons == InitCrons /\ [][NextCrons]_vars

-----------------------------------------------------------------------------
(* Claims about CronJobSource, checked under SpecCrons.                    *)

CronsAnswered == Answered("crons") \/ Answered("cron-status")

\* the object entries of a JSON array value, none when it is no array
ObjectEntries(x) == IF x.t = "array" THEN SelectSeq(x.v, IsObjectLike) ELSE <<>>

\* the raw jobs held by the source a response names
RawJobsOf(source) ==
    IF source = "cli"
    THEN IF cronCli.stdout.v.t = "array" THEN cronCli.stdout.v.v
         ELSE ObjectEntries(Get(cronCli.stdout.v, "jobs"))
    ELSE IF cronFile.k = "json" THEN ObjectEntries(Get(cronFile.v, "jobs")) ELSE <<>>

\* C1: every job of a cron response whose raw `enabled` is false has status
\* `disabled`, whatever its state.runningAtMs, state.lastStatus or
\* state.lastRunStatus hold (and a job reported as not enabled is `disabled`).
C1_DisabledOverridesRunState ==
    CronsAnswered =>
        \A i \in DOMAIN response.body.jobs :
            LET mapped == response.body.jobs[i]
                raw    == RawJobsOf(response.body.source)[i]
            IN  /\ IsFalse(Get(raw, "enabled")) => mapped.status = "disabled"
                /\ ~mapped.enabled => mapped.status = "disabled"

\* a disabled job that carries an in-progress marker and a recorded success
C1_Witness ==
    /\ CronsAnswered
    /\ \E i \in DOMAIN response.body.jobs :
          /\ response.body.jobs[i].id = "j1"
          /\ response.body.jobs[i].status = "disabled"
    /\ \E i \in DOMAIN response.body.jobs :
          /\ response.body.jobs[i].id = "j2"
          /\ response.body.jobs[i].status = "disabled"

\* the CLI query gave no usable job: it failed, printed nothing, printed
\* something that is not JSON, or printed JSON holding no job
CliGaveNoJob ==
    \/ ~cronCli.ok
    \/ cronCli.stdout.k \in {"blank", "garbage"}
    \/ /\ cronCli.stdout.k = "json"
       /\ LET parsed == cronCli.stdout.v
          IN  \/ parsed.t \notin {"array", "object"}
              \/ parsed.t = "array" /\ Len(parsed.v) = 0
              \/ /\ parsed.t = "object"
                 /\ \/ Get(parsed, "jobs").t # "array"
                    \/ \A i \in DOMAIN Get(parsed, "jobs").v :
                          ~IsObjectLike(Get(parsed, "jobs").v[i])

\* C2: when the CLI query fails, prints nothing or something unparsable, or
\* parses to zero jobs, the response says source "file" and holds exactly the
\* mapped jobs of jobs.json; source "cli" means the jobs are the CLI's and
\* there is at least one.
C2_FileFallback ==
    CronsAnswered =>
        /\ CliGaveNoJob =>
              /\ response.body.source = "file"
              /\ response.body.jobs = [i \in DOMAIN RawJobsOf("file") |-> mapCronJob(RawJobsOf("file")[i])]
        /\ response.body.source = "cli" =>
              /\ ~CliGaveNoJob
              /\ response.body.jobs = [i \in DOMAIN RawJobsOf("cli") |-> mapCronJob(RawJobsOf("cli")[i])]
              /\ Len(response.body.jobs) > 0

\* the command failed although it printed a job list, and jobs.json has jobs
C2_Witness ==
    /\ Answered("crons")
    /\ ~cronCli.ok
    /\ cronCli.stdout.k = "json" /\ cronCli.stdout.v.t = "array"
    /\ Len(cronCli.stdout.v.v) > 0
    /\ response.body.source = "file"
    /\ Len(response.body.jobs) = 2

-----------------------------------------------------------------------------
(* LeadAggregator: loadLeads, loadSalesAgentDbLeads, loadProspectBatchLeads *)
(* and loadLeadsPayload.                                                   *)

MaxLeads == 3

SalesRow(business_name, contact_email, website, updated_at, created_at) ==
    Obj([business_name |-> business_name, contact_email |-> contact_email,
         website |-> website, updated_at |-> updated_at, created_at |-> created_at])

GeoLead(name, email, website, createdAt, timestamp) ==
    Obj([name |-> name, email |-> email, website |-> website,
         createdAt |-> createdAt, timestamp |-> timestamp])

BatchRecord(business_name, name, website) ==
    Obj([business_name |-> business_name, name |-> name, website |-> website])

SalesRowPool ==
    { SalesRow(Str("Acme"), Str("a@x.com"), Null, IsoStr(5), IsoStr(1)),
      SalesRow(Str("ACME"), Str("A@X.COM"), Str(""), Null, IsoStr(2)) }

GeoLeadPool ==
    { GeoLead(Str("Acme"), Str("a@x.com"), Undef, IsoStr(3), Undef),
      GeoLead(Undef, Str("b@y.org"), Undef, Undef, Num(-7)),
      GeoLead(Str("b|c"), Undef, Str("a"), Undef, Undef) }

BatchRecordPool ==
    { BatchRecord(Str("Acme"), Undef, Str("")),
      BatchRecord(Str("c"), Undef, Str("a|b")),
      BatchRecord(Undef, Undef, Str("a")) }

\* loadLeads: the object entries of leads.json's `leads`
loadLeadsThrows == readJsonFile(leadsFile, EmptyObject).t = "null"

loadLeads ==
    LET raw == readJsonFile(leadsFile, EmptyObject)
    IN  IF Get(raw, "leads").t = "array"
        THEN SelectSeq(Get(raw, "leads").v, IsObjectLike) ELSE <<>>

\* what `sqlite3 -json` leaves on stdout: the rows of the table, unless the
\* database record says what it printed
sqliteCliStdout ==
    IF "cliStdout" \in DOMAIN salesDb THEN salesDb.cliStdout ELSE Json(Arr(salesDb.rows))

\* readSalesAgentLeadsWithSqliteCli: JSON.parse and parsed.filter are inside
\* the try
readSalesAgentLeadsWithSqliteCli ==
    IF ~salesDb.cliOk \/ sqliteCliStdout = Blank THEN <<>>
    ELSE IF sqliteCliStdout.k # "json" THEN <<>>
    ELSE IF sqliteCliStdout.v.t # "array" THEN <<>>
    ELSE SelectSeq(sqliteCliStdout.v.v, IsObjectLike)

\* the number of times loadSalesAgentDbLeads runs the sqlite3 command
sqliteCliRuns == IF salesDb.k = "missing" \/ salesDb.driverOk THEN 0 ELSE 1

\* a driver that found no rows is taken as a driver that failed
loadSalesAgentDbLeads_CliWhenNoRows ==
    IF salesDb.k = "missing" THEN <<>>
    ELSE IF salesDb.driverOk /\ salesDb.rows # <<>> THEN salesDb.rows
    ELSE readSalesAgentLeadsWithSqliteCli

\* loadSalesAgentDbLeads: no database, the driver's rows, else the sqlite CLI's
loadSalesAgentDbLeads ==
    IF salesDb.k = "missing" THEN <<>>
    ELSE IF salesDb.driverOk THEN salesDb.rows
    ELSE readSalesAgentLeadsWithSqliteCli

\* for (const entry of raw) over something that is not iterable throws
IsIterable(x) == x.t \in {"array", "string"}

loadProspectBatchLeadsThrows ==
    \E i \in DOMAIN batchFiles :
        ~IsIterable(readJsonFile(batchFiles[i].content, Arr(<<>>)))

RECURSIVE batchLeadsFrom(_)
batchLeadsFrom(files) ==
    IF files = <<>> THEN <<>>
    ELSE LET file == Head(files)
             raw  == readJsonFile(file.content, Arr(<<>>))
             list == IF raw.t = "array" THEN SelectSeq(raw.v, IsObjectLike) ELSE <<>>
         IN  [i \in DOMAIN list |-> [record |-> list[i], mtime |-> file.mtime]]
             \o batchLeadsFrom(Tail(files))

loadProspectBatchLeads == batchLeadsFrom(batchFiles)

\* lines 500-506
geoAuditLead(lead) ==
    [ name |-> JsString(Coalesce(Get(lead, "name"), Coalesce(Get(lead, "fullName"),
                  Coalesce(Get(lead, "businessName"),
                  Coalesce(Get(lead, "email"), Str("Lead")))))),
      email |-> JsString(Coalesce(Get(lead, "email"), Str(""))),
      source |-> "geo-audit",
      createdAt |-> toIso(Coalesce(Get(lead, "createdAt"), Get(lead, "timestamp"))),
      website |-> JsString(Coalesce(Get(lead, "website"),
                  Coalesce(Get(lead, "websiteUrl"), Str("")))) ]

\* lines 508-514
salesDbLead(lead) ==
    [ name |-> JsString(Coalesce(Get(lead, "business_name"),
                  Coalesce(Get(lead, "contact_name"),
                  Coalesce(Get(lead, "contact_email"), Str("Lead"))))),
      email |-> JsString(Coalesce(Get(lead, "contact_email"), Str(""))),
      source |-> "sales-db",
      createdAt |-> toIso(Coalesce(Get(lead, "updated_at"), Get(lead, "created_at"))),
      website |-> JsString(Coalesce(Get(lead, "website"), Str(""))) ]

\* lines 516-528
prospectBatchLead(entry) ==
    [ name |-> JsString(Coalesce(Get(entry.record, "business_name"),
                  Coalesce(Get(entry.record, "name"),
                  Coalesce(Get(entry.record, "website"), Str("Lead"))))),
      email |-> "",
      source |-> "sales-prospect",
      createdAt |-> IsoStr(entry.mtime),
      website |-> JsString(Coalesce(Get(entry.record, "website"), Str(""))) ]

\* line 532: the three mapped lists in scan order
scannedLeads ==
    [i \in DOMAIN loadSalesAgentDbLeads |-> salesDbLead(loadSalesAgentDbLeads[i])]
    \o [i \in DOMAIN loadLeads |-> geoAuditLead(loadLeads[i])]
    \o [i \in DOMAIN loadProspectBatchLeads |-> prospectBatchLead(loadProspectBatchLeads[i])]

\* the key with the e-mail left out
leadKey_NoEmail(lead) ==
    toLowerCase(lead.website) \o "|" \o toLowerCase(lead.name)

\* line 533
leadKey(lead) ==
    toLowerCase(lead.email) \o "|" \o toLowerCase(lead.website) \o "|"
        \o toLowerCase(lead.name)

\* only a lead equal in key to the entry added last is dropped
RECURSIVE dedupe_AdjacentOnly(_)
dedupe_AdjacentOnly(leads) ==
    IF leads = <<>> THEN <<>>
    ELSE LET before == dedupe_AdjacentOnly(SubSeq(leads, 1, Len(leads) - 1))
             lead   == leads[Len(leads)]
         IN  IF before # <<>> /\ before[Len(before)].key = leadKey(lead)
             THEN before
             ELSE Append(before,
                    [ key |-> leadKey(lead),
                      value |-> [name |-> lead.name, email |-> lead.email,
                                 source |-> lead.source, createdAt |-> lead.createdAt] ])

\* lines 530-542: the Map, as its entries in insertion order
RECURSIVE dedupe(_)
dedupe(leads) ==
    IF leads = <<>> THEN <<>>
    ELSE LET before == dedupe(SubSeq(leads, 1, Len(leads) - 1))
             lead   == leads[Len(leads)]
         IN  IF \E i \in DOMAIN before : before[i].key = leadKey(lead)
             THEN before
             ELSE Append(before,
                    [ key |-> leadKey(lead),
                      value |-> [name |-> lead.name, email |-> lead.email,
                                 source |-> lead.source, createdAt |-> lead.createdAt] ])

\* lines 545-546: a.createdAt ? Date.parse(a.createdAt) : 0
leadSortKey(lead) == IF lead.createdAt.t = "null" THEN 0 ELSE DateParse(lead.createdAt)

\* lines 544-548: Array.prototype.sort is stable; the comparator is right - left
RECURSIVE sortLeads(_)
sortLeads(leads) ==
    IF leads = <<>> THEN <<>>
    ELSE LET before == sortLeads(SubSeq(leads, 1, Len(leads) - 1))
             lead   == leads[Len(leads)]
             ahead  == {i \in DOMAIN before : leadSortKey(before[i]) >= leadSortKey(lead)}
             k      == IF ahead = {} THEN 0 ELSE CHOOSE i \in ahead : \A j \in ahead : j <= i
         IN  SubSeq(before, 1, k) \o <<lead>> \o SubSeq(before, k + 1, Len(before))

mergeLeads(leads) ==
    LET entries == dedupe(leads)
    IN  sortLeads([i \in DOMAIN entries |-> entries[i].value])

loadLeadsPayload ==
    IF loadLeadsThrows \/ loadProspectBatchLeadsThrows THEN Threw
    ELSE [ threw |-> FALSE,
           leads |-> mergeLeads(scannedLeads),
           count |-> Len(mergeLeads(scannedLeads)) ]

\* GET /api/leads
HandleLeads ==
    /\ response = NoResponse
    /\ response' = Respond("leads", loadLeadsPayload)
    /\ UNCHANGED <<restVars, clockVars, cronVars, leadVars, revenueVars, auditDir>>

\* leads.json is removed
LeadsFileRemoved ==
    /\ response = NoResponse
    /\ leadsFile # Missing
    /\ leadsFile' = Missing
    /\ UNCHANGED <<restVars, clockVars, cronVars, salesDb, batchFiles, revenueVars, auditDir, response>>

\* the better-sqlite3 module stops loading
DriverBreaks ==
    /\ response = NoResponse
    /\ salesDb.k = "db" /\ salesDb.driverOk
    /\ salesDb' = [salesDb EXCEPT !.driverOk = FALSE]
    /\ UNCHANGED <<restVars, clockVars, cronVars, leadsFile, batchFiles, revenueVars, auditDir, response>>

\* the newest prospect file is removed
BatchFileRemoved ==
    /\ response = NoResponse
    /\ batchFiles # <<>>
    /\ batchFiles' = Tail(batchFiles)
    /\ UNCHANGED <<restVars, clockVars, cronVars, salesDb, leadsFile, revenueVars, auditDir, response>>

TaggedLeadPool ==
    ({"sales"} \X SalesRowPool) \cup ({"geo"} \X GeoLeadPool)
        \cup ({"batch1", "batch2"} \X BatchRecordPool)

\* the records of one source among the drawn ones, in the order drawn
Tagged(all, tag) ==
    LET own == SelectSeq(all, LAMBDA e : e[1] = tag)
    IN  [i \in DOMAIN own |-> own[i][2]]

\* ORDER BY datetime(COALESCE(updated_at, created_at)) DESC
rowOrderKey(row) ==
    LET at == Coalesce(Get(row, "updated_at"), Get(row, "created_at"))
    IN  IF at.t = "string" /\ "iso" \in DOMAIN at THEN at.iso ELSE -1

InQueryOrder(rows) ==
    \A i, j \in DOMAIN rows : i < j => rowOrderKey(rows[i]) >= rowOrderKey(rows[j])

BatchFile(mtime, records) == [mtime |-> mtime, content |-> Json(Arr(records))]

\* prospect files in the order read: newest first
BatchDir(all, odd) ==
    (IF odd = "object" THEN <<[mtime |-> 10, content |-> Json(EmptyObject)]>>
     ELSE IF odd = "garbage" THEN <<[mtime |-> 10, content |-> Unparsable]>>
     ELSE <<>>)
    \o (IF Tagged(all, "batch1") # <<>> THEN <<BatchFile(9, Tagged(all, "batch1"))>> ELSE <<>>)
    \o (IF Tagged(all, "batch2") # <<>> THEN <<BatchFile(4, Tagged(all, "batch2"))>> ELSE <<>>)

InitOthersForLeads ==
    /\ InitRest
    /\ now = 0 /\ tz = 0
    /\ cronCli = [ok |-> FALSE, stdout |-> Blank] /\ cronFile = Missing
    /\ paymentsFile = Missing /\ metricsFile = Missing
    /\ auditDir = Missing

InitLeads ==
    /\ \E all \in SeqsUpTo(TaggedLeadPool, MaxLeads) :
          /\ InQueryOrder(Tagged(all, "sales"))
          /\ salesDb \in
                (IF Tagged(all, "sales") = <<>> THEN {Missing} ELSE {})
                \cup {[k |-> "db", driverOk |-> d, cliOk |-> c, rows |-> Tagged(all, "sales")] :
                        d \in BOOLEAN, c \in BOOLEAN}
          /\ leadsFile \in
                (IF Tagged(all, "geo") = <<>>
                 THEN {Missing, Unparsable, Json(Null), Json(Obj([leads |-> Str("none")]))}
                 ELSE {})
                \cup {Json(Obj([leads |-> Arr(Tagged(all, "geo"))]))}
          /\ batchFiles \in {BatchDir(all, odd) : odd \in {"none", "object", "garbage"}}
    /\ response = NoResponse
    /\ InitOthersForLeads

NextLeads == HandleLeads \/ Send \/ LeadsFileRemoved \/ DriverBreaks \/ BatchFileRemoved

SpecLeads == InitLeads /\ [][NextLeads]_vars

-----------------------------------------------------------------------------
(* Claims about LeadAggregator, checked under SpecLeads.                   *)

\* the lowercased triple (email, website, name) of a mapped lead
leadTriple(lead) ==
    <<toLowerCase(lead.email), toLowerCase(lead.website), toLowerCase(lead.name)>>

\* what /api/leads shows of a mapped lead
leadEntry(lead) ==
    [name |-> lead.name, email |-> lead.email, source |-> lead.source,
     createdAt |-> lead.createdAt]

\* the first lead in scan order (sales DB, leads.json, batch files) with a triple
FirstWithTriple(triple) ==
    scannedLeads[CHOOSE i \in DOMAIN scannedLeads :
        /\ leadTriple(scannedLeads[i]) = triple
        /\ \A j \in DOMAIN scannedLeads : leadTriple(scannedLeads[j]) = triple => i <= j]

ScannedTriples == {leadTriple(scannedLeads[i]) : i \in DOMAIN scannedLeads}

\* C3: leads are deduplicated by the lowercased triple (email, website, name):
\* the response holds one lead per distinct triple of the three sources, the
\* first one met in scan order, so count is the number of distinct triples.
C3_OneLeadPerTriple ==
    Answered("leads") =>
        /\ response.body.count = Cardinality(ScannedTriples)
        /\ Len(response.body.leads) = Cardinality(ScannedTriples)
        /\ \A t \in ScannedTriples :
              Cardinality({i \in DOMAIN response.body.leads :
                              response.body.leads[i] = leadEntry(FirstWithTriple(t))})
              = Cardinality({u \in ScannedTriples :
                              leadEntry(FirstWithTriple(u)) = leadEntry(FirstWithTriple(t))})

\* the scenario of C4: the document store holds {name: "Acme", email:
\* "a@x.com"} stamped 3, one batch file written later holds {business_name:
\* "Acme", website: ""}, and the sales store yields nothing
C4_Scenario ==
    /\ loadSalesAgentDbLeads = <<>>
    /\ leadsFile = Json(Obj([leads |->
          Arr(<<GeoLead(Str("Acme"), Str("a@x.com"), Undef, IsoStr(3), Undef)>>)]))
    /\ Len(batchFiles) = 1
    /\ batchFiles[1].content = Json(Arr(<<BatchRecord(Str("Acme"), Undef, Str(""))>>))
    /\ batchFiles[1].mtime > 3

\* C4 as stated: in the scenario the response holds exactly one lead named
\* "Acme", with email "a@x.com" and the document store's timestamp.
C4_OneAcme ==
    (Answered("leads") /\ C4_Scenario) =>
        /\ Cardinality({i \in DOMAIN response.body.leads :
                            response.body.leads[i].name = "Acme"}) = 1
        /\ \A i \in DOMAIN response.body.leads :
              response.body.leads[i].name = "Acme" =>
                  /\ response.body.leads[i].email = "a@x.com"
                  /\ response.body.leads[i].createdAt = IsoStr(3)

\* C4 amended: in the scenario the response holds two leads named "Acme",
\* their keys differing in the e-mail: first the batch lead, with an empty
\* email and the batch file's modification time, then the document-store lead
\* with email "a@x.com" and the document store's timestamp.
C4_TwoAcme ==
    (Answered("leads") /\ C4_Scenario) =>
        /\ response.body.count = 2
        /\ response.body.leads =
              << [name |-> "Acme", email |-> "", source |-> "sales-prospect",
                  createdAt |-> IsoStr(batchFiles[1].mtime)],
                 [name |-> "Acme", email |-> "a@x.com", source |-> "geo-audit",
                  createdAt |-> IsoStr(3)] >>

C4_Witness == Answered("leads") /\ C4_Scenario

\* each source taken twice, in scan order
scannedTwicePerSource ==
    LET sales == [i \in DOMAIN loadSalesAgentDbLeads |-> salesDbLead(loadSalesAgentDbLeads[i])]
        geo   == [i \in DOMAIN loadLeads |-> geoAuditLead(loadLeads[i])]
        batch == [i \in DOMAIN loadProspectBatchLeads |->
                    prospectBatchLead(loadProspectBatchLeads[i])]
    IN  sales \o sales \o geo \o geo \o batch \o batch

\* C5: merging the sources taken twice (each source doubled, or the whole
\* scan repeated) gives the leads, and the count, of merging them once.
C5_MergeIdempotent ==
    Answered("leads") =>
        /\ mergeLeads(scannedLeads \o scannedLeads) = response.body.leads
        /\ mergeLeads(scannedTwicePerSource) = response.body.leads
        /\ Len(mergeLeads(scannedLeads \o scannedLeads)) = response.body.count

\* three records in the sources, two of them distinct
C5_Witness ==
    /\ Answered("leads")
    /\ Len(scannedLeads) = 3
    /\ response.body.count = 2
    /\ response.body.leads[1].source # response.body.leads[2].source

-----------------------------------------------------------------------------
(* RevenueAggregator: startOfToday, startOfWeek, startOfMonth,             *)
(* isSyntheticPayment, loadRevenueEntries, loadRevenuePayload.             *)
(* Instants are counted in ticks, DayMs ticks to the day; day 0 is         *)
(* Thursday 1 January 1970, and local time is UTC plus tz.                 *)

DayMs == 2
MaxEntries == 2

\* the local calendar day an instant falls in: getFullYear/getMonth/getDate
LocalDay(t) == (t + tz) \div DayMs

\* the instant of local midnight opening a day: new Date(year, month, date)
LocalMidnight(day) == day * DayMs - tz

\* Date.prototype.getDay: 0 is Sunday
getDay(day) == (day + 4) % 7

\* the days opening the months of 1970
MonthStartDays == {0, 31, 59, 90, 120, 151}

FirstOfMonth(day) ==
    CHOOSE m \in MonthStartDays :
        m <= day /\ \A n \in MonthStartDays : n <= day => n <= m

startOfToday == LocalMidnight(LocalDay(now))

\* the week opened at the Sunday to come
startOfWeek_NextSunday ==
    LocalMidnight(LocalDay(now) + 7 - getDay(LocalDay(now)))

startOfWeek ==
    LocalMidnight(LocalDay(now) - getDay(LocalDay(now)))

\* new Date(year, month, 0): the last day of the month before
startOfMonth_DayZero == LocalMidnight(FirstOfMonth(LocalDay(now)) - 1)

startOfMonth == LocalMidnight(FirstOfMonth(LocalDay(now)))

\* Number(x) || 0
NumberOrZero(x) ==
    IF x.t = "number" THEN x.v
    ELSE IF x.t = "string" /\ "v" \in DOMAIN x
         THEN (IF x.v = "2" THEN 2 ELSE 0)
    ELSE IF x.t = "boolean" THEN (IF x.v THEN 1 ELSE 0)
    ELSE 0

\* businessName.includes('acme co'), on the names the sources hold
includesAcmeCo(s) == s \in {"acme co", "acme co llc"}

\* email.endsWith('.example'), on the addresses the sources hold
endsWithExample(s) == s \in {"bob@shop.example"}

\* sessionId.startsWith('cs_test_'), on the identifiers the sources hold
startsWithCsTest(s) == s \in {"cs_test_9"}

isSyntheticPayment(payment) ==
    LET businessName == toLowerCase(JsString(Coalesce(Get(payment, "businessName"), Str(""))))
        email        == toLowerCase(JsString(Coalesce(Get(payment, "email"), Str(""))))
        sessionId    == toLowerCase(JsString(Coalesce(Get(payment, "sessionId"), Str(""))))
    IN  includesAcmeCo(businessName) \/ endsWithExample(email) \/ startsWithCsTest(sessionId)

loadPaymentsThrows == readJsonFile(paymentsFile, EmptyObject).t = "null"

loadPayments ==
    LET raw == readJsonFile(paymentsFile, EmptyObject)
    IN  IF Get(raw, "payments").t = "array"
        THEN SelectSeq(Get(raw, "payments").v, IsObjectLike) ELSE <<>>

loadBusinessMetrics == readJsonFile(metricsFile, EmptyObject)

\* lines 332-336
paymentEntry(payment) ==
    [ amount |-> NumberOrZero(Coalesce(Get(payment, "amount"), Num(0))),
      timestamp |-> toIso(Get(payment, "timestamp")),
      businessName |-> JsString(Coalesce(Get(payment, "businessName"),
                          Coalesce(Get(payment, "email"), Str("Unknown")))) ]

\* lines 340-344
historyEntry(entry) ==
    [ amount |-> NumberOrZero(Coalesce(Get(entry, "amount"), Coalesce(Get(entry, "value"),
                    Coalesce(Get(entry, "revenue"), Coalesce(Get(entry, "total"), Num(0)))))),
      timestamp |-> toIso(Coalesce(Get(entry, "timestamp"),
                    Coalesce(Get(entry, "date"), Get(entry, "createdAt")))),
      businessName |-> JsString(Coalesce(Get(entry, "businessName"),
                          Coalesce(Get(entry, "client"),
                          Coalesce(Get(entry, "name"), Str("Recorded revenue"))))) ]

\* lines 335, 342: toIso throws on the timestamp of a record that is mapped
loadRevenueEntriesThrows ==
    \/ \E i \in DOMAIN loadPayments :
          /\ ~isSyntheticPayment(loadPayments[i])
          /\ toIsoThrows(Get(loadPayments[i], "timestamp"))
    \/ LET history == IF Get(loadBusinessMetrics, "history").t = "array"
                      THEN SelectSeq(Get(loadBusinessMetrics, "history").v, IsObjectLike)
                      ELSE <<>>
       IN  \E i \in DOMAIN history :
              toIsoThrows(Coalesce(Get(history[i], "timestamp"),
                          Coalesce(Get(history[i], "date"), Get(history[i], "createdAt"))))

IsRetained(entry) == entry.timestamp.t # "null" /\ entry.amount > 0

\* the sort of line 348 turned round: oldest first
RECURSIVE sortEntries_OldestFirst(_)
sortEntries_OldestFirst(entries) ==
    IF entries = <<>> THEN <<>>
    ELSE LET before == sortEntries_OldestFirst(SubSeq(entries, 1, Len(entries) - 1))
             entry  == entries[Len(entries)]
             ahead  == {i \in DOMAIN before :
                           DateParse(before[i].timestamp) <= DateParse(entry.timestamp)}
             k      == IF ahead = {} THEN 0 ELSE CHOOSE i \in ahead : \A j \in ahead : j <= i
         IN  SubSeq(before, 1, k) \o <<entry>> \o SubSeq(before, k + 1, Len(before))

\* line 348: stable sort, newest first
RECURSIVE sortEntries(_)
sortEntries(entries) ==
    IF entries = <<>> THEN <<>>
    ELSE LET before == sortEntries(SubSeq(entries, 1, Len(entries) - 1))
             entry  == entries[Len(entries)]
             ahead  == {i \in DOMAIN before :
                           DateParse(before[i].timestamp) >= DateParse(entry.timestamp)}
             k      == IF ahead = {} THEN 0 ELSE CHOOSE i \in ahead : \A j \in ahead : j <= i
         IN  SubSeq(before, 1, k) \o <<entry>> \o SubSeq(before, k + 1, Len(before))

historyOf(metrics) ==
    IF Get(metrics, "history").t = "array"
    THEN SelectSeq(Get(metrics, "history").v, IsObjectLike) ELSE <<>>

loadRevenueEntries ==
    LET history  == historyOf(loadBusinessMetrics)
        payments == SelectSeq(loadPayments, LAMBDA p : ~isSyntheticPayment(p))
        paymentEntries == [i \in DOMAIN payments |-> paymentEntry(payments[i])]
        historyEntries == [i \in DOMAIN history |-> historyEntry(history[i])]
    IN  sortEntries(SelectSeq(paymentEntries \o historyEntries, IsRetained))

RECURSIVE SumAmounts(_)
SumAmounts(entries) ==
    IF entries = <<>> THEN 0 ELSE Head(entries).amount + SumAmounts(Tail(entries))

\* lines 363-368: the amounts of the entries at or after an instant
totalSince(entries, start) ==
    SumAmounts(SelectSeq(entries, LAMBDA e : DateParse(e.timestamp) >= start))

\* the week's comparison made strict
loadRevenuePayload_StrictWeek ==
    IF loadBusinessMetrics.t = "null" \/ loadPaymentsThrows THEN Threw
    ELSE IF loadRevenueEntriesThrows THEN Threw
    ELSE LET goal     == Coalesce(Get(loadBusinessMetrics, "goal"), EmptyObject)
             payments == loadRevenueEntries
         IN  [ threw |-> FALSE,
               today |-> totalSince(payments, startOfToday),
               week  |-> totalSince(payments, startOfWeek + 1),
               month |-> IF Len(payments) > 0 THEN totalSince(payments, startOfMonth)
                         ELSE NumberOrZero(Coalesce(Get(goal, "total"), Num(0))),
               payments |-> SubSeq(payments, 1, IF Len(payments) < 5 THEN Len(payments) ELSE 5),
               totalCount |-> Len(payments) ]

loadRevenuePayload ==
    IF loadBusinessMetrics.t = "null" \/ loadPaymentsThrows THEN Threw
    ELSE IF loadRevenueEntriesThrows THEN Threw
    ELSE LET goal     == Coalesce(Get(loadBusinessMetrics, "goal"), EmptyObject)
             payments == loadRevenueEntries
         IN  [ threw |-> FALSE,
               today |-> totalSince(payments, startOfToday),
               week  |-> totalSince(payments, startOfWeek),
               month |-> IF Len(payments) > 0 THEN totalSince(payments, startOfMonth)
                         ELSE NumberOrZero(Coalesce(Get(goal, "total"), Num(0))),
               payments |-> SubSeq(payments, 1, IF Len(payments) < 5 THEN Len(payments) ELSE 5),
               totalCount |-> Len(payments) ]

\* GET /api/revenue
HandleRevenue ==
    /\ response = NoResponse
    /\ response' = Respond("revenue", loadRevenuePayload)
    /\ UNCHANGED <<restVars, clockVars, cronVars, leadVars, revenueVars, auditDir>>

\* payments.json is removed
PaymentsFileRemoved ==
    /\ response = NoResponse
    /\ paymentsFile # Missing
    /\ paymentsFile' = Missing
    /\ UNCHANGED <<restVars, clockVars, cronVars, leadVars, metricsFile, auditDir, response>>

\* business-metrics.json is removed
MetricsFileRemoved ==
    /\ response = NoResponse
    /\ metricsFile # Missing
    /\ metricsFile' = Missing
    /\ UNCHANGED <<restVars, clockVars, cronVars, leadVars, paymentsFile, auditDir, response>>

Payment(amount, timestamp, businessName, email, sessionId) ==
    Obj([amount |-> amount, timestamp |-> timestamp, businessName |-> businessName,
         email |-> email, sessionId |-> sessionId])

HistoryEntry(value, date, businessName) ==
    Obj([value |-> value, date |-> date, businessName |-> businessName])

\* the instants at and one tick before the bucket starts, and the present
BoundaryInstants ==
    {startOfToday - 1, startOfToday, startOfWeek - 1, startOfWeek,
     startOfMonth - 1, startOfMonth, now}

TaggedRevenuePool ==
    ({"payment"} \X
        ({Payment(Num(1), IsoStr(t), Str("Bakery"), Str("bob@shop.com"), Str("cs_live_1")) :
              t \in BoundaryInstants}
         \cup {Payment(Num(4), IsoStr(now), Str("ACME CO LLC"), Undef, Undef),
               Payment(Num(4), IsoStr(now), Undef, Str("Bob@Shop.Example"), Str("CS_TEST_9")),
               Payment(Str("abc"), IsoStr(now), Str("Bakery"), Undef, Undef)}))
    \cup ({"history"} \X
        {HistoryEntry(Str("2"), IsoStr(startOfWeek), Undef),
         HistoryEntry(Num(8), Num(now), Str("Acme Co"))})

TzPool == {-1, 0, 1}

\* a Sunday at its first and last tick, the last tick of the Monday after,
\* and the first tick of the Thursday after the month has turned
NowPool ==
    {LocalMidnight(87), LocalMidnight(87) + DayMs - 1,
     LocalMidnight(88) + DayMs - 1, LocalMidnight(91)}

InitOthersForRevenue ==
    /\ InitRest
    /\ cronCli = [ok |-> FALSE, stdout |-> Blank] /\ cronFile = Missing
    /\ salesDb = Missing /\ leadsFile = Missing /\ batchFiles = <<>>
    /\ auditDir = Missing

InitRevenue ==
    /\ tz \in TzPool
    /\ now \in NowPool
    /\ \E all \in SeqsUpTo(TaggedRevenuePool, MaxEntries) :
          /\ paymentsFile \in
                (IF Tagged(all, "payment") = <<>>
                 THEN {Missing, Unparsable, Json(Null), Json(Obj([payments |-> Null]))}
                 ELSE {})
                \cup {Json(Obj([payments |-> Arr(Tagged(all, "payment"))]))}
          /\ metricsFile \in
                (IF Tagged(all, "history") = <<>>
                 THEN {Missing, Json(Null), Json(Obj([goal |-> Obj([total |-> Num(32)])]))}
                 ELSE {})
                \cup {Json(Obj([history |-> Arr(Tagged(all, "history")), goal |-> g])) :
                        g \in {Undef, Obj([total |-> Num(32)])}}
    /\ response = NoResponse
    /\ InitOthersForRevenue

NextRevenue == HandleRevenue \/ Send \/ PaymentsFileRemoved \/ MetricsFileRemoved

SpecRevenue == InitRevenue /\ [][NextRevenue]_vars

-----------------------------------------------------------------------------
(* Claims about /api/revenue.                                              *)

\* the records of both revenue sources as read from disk
paymentRecords == loadPayments
historyRecords == historyOf(loadBusinessMetrics)

\* the entries of the records of both sources the heuristic does not flag
unflaggedEntries ==
    LET payments == SelectSeq(paymentRecords, LAMBDA p : ~isSyntheticPayment(p))
        history  == SelectSeq(historyRecords, LAMBDA h : ~isSyntheticPayment(h))
    IN  sortEntries(SelectSeq(
            [i \in DOMAIN payments |-> paymentEntry(payments[i])]
                \o [i \in DOMAIN history |-> historyEntry(history[i])],
            IsRetained))

\* C6: no record the synthetic-data heuristic flags, from the payment log or
\* from the business-metrics history, adds to today, week or month or is
\* listed in payments: the totals, the list and the count are those of the
\* unflagged records alone.
C6_NoSyntheticCounted ==
    Answered("revenue") =>
        /\ response.body.today = totalSince(unflaggedEntries, startOfToday)
        /\ response.body.week = totalSince(unflaggedEntries, startOfWeek)
        /\ Len(unflaggedEntries) > 0 =>
              response.body.month = totalSince(unflaggedEntries, startOfMonth)
        /\ response.body.payments = unflaggedEntries
        /\ response.body.totalCount = Len(unflaggedEntries)

\* the flagged records of the payment log alone are left out
C6_PaymentLogFiltered ==
    (/\ Answered("revenue")
     /\ \A i \in DOMAIN historyRecords : ~isSyntheticPayment(historyRecords[i]))
        => C6_NoSyntheticCounted

\* the instant opening the most recent local Sunday: a local midnight, on a
\* Sunday, not after now and less than seven days before it
IsWeekStart(t) ==
    /\ \E day \in LocalDay(now) - 6 .. LocalDay(now) :
          t = LocalMidnight(day) /\ getDay(day) = 0
    /\ t <= now
    /\ now - t < 7 * DayMs

\* the retained entries all lie at week start or one tick before it
OnlyAroundWeekStart(t) ==
    \A i \in DOMAIN loadRevenueEntries :
        DateParse(loadRevenueEntries[i].timestamp) \in {t - 1, t}

\* C7: the week bucket opens, inclusively, at the most recent Sunday 00:00
\* local time: an entry stamped exactly at week start is added to week and an
\* entry stamped one tick before it is not.
C7_WeekStartInclusive ==
    Answered("revenue") =>
        \A t \in now - 7 * DayMs .. now :
            (IsWeekStart(t) /\ OnlyAroundWeekStart(t)) =>
                response.body.week =
                    SumAmounts(SelectSeq(loadRevenueEntries,
                                LAMBDA e : DateParse(e.timestamp) = t))

\* an entry at week start and one a tick before it, week holding the first
C7_Witness ==
    /\ Answered("revenue")
    /\ Len(loadRevenueEntries) = 2
    /\ \E t \in now - 7 * DayMs .. now :
          /\ IsWeekStart(t)
          /\ DateParse(loadRevenueEntries[1].timestamp) = t
          /\ DateParse(loadRevenueEntries[2].timestamp) = t - 1
    /\ response.body.week = loadRevenueEntries[1].amount
    /\ response.body.week > 0

\* the instant opening the local day of now
IsDayStart(t) == \E day \in {LocalDay(now)} : t = LocalMidnight(day) /\ t <= now /\ now - t < DayMs

\* the instant opening the first day of the local month of now
IsMonthStart(t) ==
    /\ \E day \in MonthStartDays : t = LocalMidnight(day)
    /\ t <= now
    /\ \A day \in MonthStartDays : LocalMidnight(day) <= now => LocalMidnight(day) <= t

\* the sum of the amounts of the retained entries stamped at or after t
RetainedSince(t) ==
    SumAmounts(SelectSeq(loadRevenueEntries, LAMBDA e : DateParse(e.timestamp) >= t))

\* the local midnights of the day of now and of the 31 days before it
BucketInstants == {LocalMidnight(day) : day \in LocalDay(now) - 31 .. LocalDay(now)}

\* today and week are the sums of the retained entries of their buckets
TodayAndWeekAreSums ==
    \A t \in BucketInstants :
        /\ IsDayStart(t) => response.body.today = RetainedSince(t)
        /\ IsWeekStart(t) => response.body.week = RetainedSince(t)

\* C8 as stated: today, week and month are each the sum of the amounts of
\* the retained entries stamped at or after the bucket's start, and 0 when
\* no entry is retained.
C8_BucketsAreSums ==
    Answered("revenue") =>
        /\ TodayAndWeekAreSums
        /\ \A t \in BucketInstants :
              IsMonthStart(t) => response.body.month = RetainedSince(t)

\* C8: today and week are each the sum of the amounts of the retained
\* entries stamped at or after the bucket's start; month is that sum when an
\* entry is retained, and otherwise the goal total of the business metrics
\* (0 when that is absent or no number).
C8_MonthFallsBackToGoal ==
    Answered("revenue") =>
        /\ TodayAndWeekAreSums
        /\ \E t \in BucketInstants : IsDayStart(t)
        /\ \E t \in BucketInstants : IsWeekStart(t)
        /\ \E t \in BucketInstants : IsMonthStart(t)
        /\ \A t \in BucketInstants :
              IsMonthStart(t) =>
                  response.body.month =
                      IF loadRevenueEntries # <<>> THEN RetainedSince(t)
                      ELSE NumberOrZero(Coalesce(
                              Get(Coalesce(Get(loadBusinessMetrics, "goal"), EmptyObject),
                                  "total"), Num(0)))

\* an entry of today and an entry of the month from before the week
C8_Witness ==
    /\ Answered("revenue")
    /\ 0 < response.body.today
    /\ response.body.today = response.body.week
    /\ response.body.week < response.body.month

\* no entry retained and a goal total recorded: month is the goal total
C8_FallbackWitness ==
    /\ Answered("revenue")
    /\ loadRevenueEntries = <<>>
    /\ response.body.month = 32

-----------------------------------------------------------------------------
(* AuditSummaryLoader: normalizeScore, loadAuditSummaries, GET /api/audits. *)
(* Scores are counted in hundredths, so that 8.5 is 850.                    *)

MaxAudits == 2

\* a JSON number with a fraction, given in hundredths
Dec(c) == [t |-> "number", c |-> c]

\* a JSON number too large for a double: JSON.parse gives Infinity
Huge == [t |-> "number", inf |-> TRUE]

NaN == [finite |-> FALSE]
Finite(c) == [finite |-> TRUE, c |-> c]

\* the value of a number, in hundredths
numberValue(x) ==
    IF "inf" \in DOMAIN x THEN NaN
    ELSE IF "c" \in DOMAIN x THEN Finite(x.c)
    ELSE Finite(100 * x.v)

\* Number(x) of a string, on the strings the sources hold
parseNumber(s) ==
    IF s = "" THEN Finite(0)
    ELSE IF s = "7" THEN Finite(700)
    ELSE IF s = "8.5" THEN Finite(850)
    ELSE NaN

\* typeof value === 'number' ? value : Number(value), in hundredths
JsNumber(value) ==
    IF value.t = "number" THEN numberValue(value)
    ELSE IF value.t = "string"
         THEN (IF "v" \in DOMAIN value THEN parseNumber(value.v) ELSE NaN)
    ELSE IF value.t = "boolean" THEN Finite(IF value.v THEN 100 ELSE 0)
    ELSE IF value.t = "null" THEN Finite(0)
    ELSE IF value.t = "array"
         THEN (IF value.v = <<>> THEN Finite(0)
               ELSE IF Len(value.v) = 1 /\ value.v[1].t = "number"
                    THEN numberValue(value.v[1])
               ELSE IF Len(value.v) = 1 /\ IsNullish(value.v[1]) THEN Finite(0)
               ELSE NaN)
    ELSE NaN

\* Math.round of hundredths: the nearest integer, a half going up
MathRound(c) == (c + 50) \div 100

\* scores below 10, not those up to 10, taken as on the ten-point scale
normalizeScore_BelowTen(value) ==
    LET numeric == JsNumber(value)
    IN  IF ~numeric.finite THEN 0
        ELSE LET normalized == IF numeric.c < 1000 THEN numeric.c * 10 ELSE numeric.c
                 rounded    == MathRound(normalized)
             IN  IF rounded > 100 THEN 100 ELSE IF rounded < 0 THEN 0 ELSE rounded

normalizeScore(value) ==
    LET numeric == JsNumber(value)
    IN  IF ~numeric.finite THEN 0
        ELSE LET normalized == IF numeric.c <= 1000 THEN numeric.c * 10 ELSE numeric.c
                 rounded    == MathRound(normalized)
             IN  IF rounded > 100 THEN 100 ELSE IF rounded < 0 THEN 0 ELSE rounded

\* the top-level score tried first
rawScore_TopLevelFirst(raw) ==
    LET report == Coalesce(Get(raw, "report"), EmptyObject)
    IN  Coalesce(Get(raw, "score"),
            Coalesce(Get(report, "overallScore"), Get(Get(report, "score"), "overall")))

\* lines 201-205: report.overallScore ?? report.score?.overall ?? raw.score
rawScore(raw) ==
    LET report == Coalesce(Get(raw, "report"), EmptyObject)
    IN  Coalesce(Get(report, "overallScore"),
            Coalesce(Get(Get(report, "score"), "overall"), Get(raw, "score")))

\* a file of the cache directory: fileName is stem followed by ext
AuditFile(stem, ext, mtime, content) ==
    [stem |-> stem, ext |-> ext, mtime |-> mtime, content |-> content]

\* lines 182-207: the summary of one cache file
auditSummary(file) ==
    LET raw            == readJsonFile(file.content, EmptyObject)
        report         == Coalesce(Get(raw, "report"), EmptyObject)
        reportBusiness == Coalesce(Get(report, "business"), EmptyObject)
        fromRaw        == toIso(Get(raw, "timestamp"))
        fromReport     == toIso(Get(report, "timestamp"))
    IN  [ id |-> JsString(Coalesce(Get(raw, "cacheId"), Str(file.stem))),
          businessName |-> JsString(Coalesce(Get(report, "businessName"),
                              Coalesce(Get(reportBusiness, "name"),
                              Coalesce(Get(raw, "businessName"), Str(file.stem))))),
          score |-> normalizeScore(rawScore(raw)),
          timestamp |-> IF fromRaw.t # "null" THEN fromRaw
                        ELSE IF fromReport.t # "null" THEN fromReport
                        ELSE IsoStr(file.mtime) ]

\* line 209: stable sort, newest first
RECURSIVE sortAudits(_)
sortAudits(audits) ==
    IF audits = <<>> THEN <<>>
    ELSE LET before == sortAudits(SubSeq(audits, 1, Len(audits) - 1))
             audit  == audits[Len(audits)]
             ahead  == {i \in DOMAIN before :
                           DateParse(before[i].timestamp) >= DateParse(audit.timestamp)}
             k      == IF ahead = {} THEN 0 ELSE CHOOSE i \in ahead : \A j \in ahead : j <= i
         IN  SubSeq(before, 1, k) \o <<audit>> \o SubSeq(before, k + 1, Len(before))

\* the .json files of the cache directory, in directory order
jsonFiles == IF auditDir = Missing THEN <<>>
             ELSE SelectSeq(auditDir.files, LAMBDA f : f.ext = ".json")

\* raw.report on a null document, or toIso on a number beyond the range of
\* Date: the report's timestamp is only tried when the top-level one gave null
loadAuditSummariesThrows ==
    \E i \in DOMAIN jsonFiles :
        LET raw    == readJsonFile(jsonFiles[i].content, EmptyObject)
            report == Coalesce(Get(raw, "report"), EmptyObject)
        IN  \/ raw.t = "null"
            \/ toIsoThrows(Get(raw, "timestamp"))
            \/ /\ toIso(Get(raw, "timestamp")).t = "null"
               /\ toIsoThrows(Get(report, "timestamp"))

loadAuditSummaries ==
    sortAudits([i \in DOMAIN jsonFiles |-> auditSummary(jsonFiles[i])])

\* lines 795-803
auditsPayload ==
    IF loadAuditSummariesThrows THEN Threw
    ELSE LET audits == loadAuditSummaries
         IN  [ threw |-> FALSE,
               total |-> Len(audits),
               today |-> Len(SelectSeq(audits,
                            LAMBDA a : DateParse(a.timestamp) >= startOfToday)),
               recent |-> SubSeq(audits, 1, IF Len(audits) < 5 THEN Len(audits) ELSE 5) ]

\* GET /api/audits
HandleAudits ==
    /\ response = NoResponse
    /\ response' = Respond("audits", auditsPayload)
    /\ UNCHANGED <<restVars, clockVars, cronVars, leadVars, revenueVars, auditDir>>

\* the newest cache file is removed
AuditFileRemoved ==
    /\ response = NoResponse
    /\ auditDir # Missing
    /\ auditDir.files # <<>>
    /\ auditDir' = [auditDir EXCEPT !.files = SubSeq(@, 1, Len(@) - 1)]
    /\ UNCHANGED <<restVars, clockVars, cronVars, leadVars, revenueVars, response>>

\* the cache directory is removed
AuditDirRemoved ==
    /\ response = NoResponse
    /\ auditDir # Missing
    /\ auditDir' = Missing
    /\ UNCHANGED <<restVars, clockVars, cronVars, leadVars, revenueVars, response>>

\* the raw scores a cache file may hold
ScorePool ==
    {Undef, Null, Huge, Bool(TRUE), Str(""), Str("7"), Str("8.5"), Str("abc"),
     Arr(<<Num(7)>>), Obj([overall |-> Num(7)])}
    \cup {Num(n) : n \in {-3, 0, 7, 10, 11, 85, 100, 101, 140}}
    \cup {Dec(c) : c \in {-25, -5, 4, 5, 825, 850, 1005, 1050, 9949, 9950}}

\* a report holding a score at its first and second location
Report(overallScore, nested) ==
    Obj([overallScore |-> overallScore, score |-> Obj([overall |-> nested])])

\* the contents a later file of the directory may hold
FewAuditContents ==
    {Unparsable, Json(Null),
     Json(Obj([score |-> Num(140)])),
     Json(Obj([report |-> Obj([overallScore |-> Dec(850)])])),
     Json(Obj([cacheId |-> Str("c-9"), businessName |-> Str("Bakery"),
               timestamp |-> IsoStr(now), score |-> Num(7)])),
     Json(Obj([report |-> Obj([business |-> Obj([name |-> Str("Acme")]),
                               timestamp |-> Num(now - DayMs)])]))}

\* the contents the first file of the directory may hold
AuditContentPool ==
    FewAuditContents
    \cup {Json(Arr(<<>>)),
          Json(Obj([report |-> Obj([score |-> Num(85)]), score |-> Num(3)]))}
    \cup {Json(Obj([score |-> v])) : v \in ScorePool}
    \cup {Json(Obj([report |-> Report(a, b), score |-> c])) :
            a \in {Undef, Null, Dec(850)}, b \in {Undef, Num(7)}, c \in {Undef, Num(140)}}

\* the i-th file of the directory
AuditFilePool(i) ==
    {AuditFile("audit-" \o ToString(i), ".json", startOfToday - 1 + (i % 2), c) :
        c \in IF i = 1 THEN AuditContentPool ELSE FewAuditContents}
    \cup {AuditFile("notes-" \o ToString(i), ".txt", now, Unparsable)}

RECURSIVE AuditFileLists(_)
AuditFileLists(n) ==
    IF n = 0 THEN {<<>>}
    ELSE {Append(files, f) : files \in AuditFileLists(n - 1), f \in AuditFilePool(n)}

AuditDirPool ==
    {Missing} \cup
    {[k |-> "dir", files |-> files] : files \in UNION {AuditFileLists(n) : n \in 0..MaxAudits}}

InitOthersForAudits ==
    /\ InitRest
    /\ cronCli = [ok |-> FALSE, stdout |-> Blank] /\ cronFile = Missing
    /\ salesDb = Missing /\ leadsFile = Missing /\ batchFiles = <<>>
    /\ paymentsFile = Missing /\ metricsFile = Missing

InitAudits ==
    /\ tz = 0
    /\ now = LocalMidnight(88) + DayMs - 1
    /\ auditDir \in AuditDirPool
    /\ response = NoResponse
    /\ InitOthersForAudits

NextAudits == HandleAudits \/ Send \/ AuditFileRemoved \/ AuditDirRemoved

SpecAudits == InitAudits /\ [][NextAudits]_vars

-----------------------------------------------------------------------------
(* Claims about /api/audits.                                               *)

\* the document of a cache file as loadAuditSummaries reads it
documentOf(file) == readJsonFile(file.content, EmptyObject)

\* the response lists a summary of the file with the given score
ListedWithScore(file, score) ==
    \E j \in DOMAIN response.body.recent :
        /\ response.body.recent[j].id =
              JsString(Coalesce(Get(documentOf(file), "cacheId"), Str(file.stem)))
        /\ response.body.recent[j].score = score

\* r is the integer nearest to a count of hundredths, a half going up,
\* brought into 0..100
IsRoundedAndClamped(r, hundredths) ==
    \E k \in -50..200 :
        /\ 100 * k - 50 <= hundredths
        /\ hundredths < 100 * k + 50
        /\ r = IF k < 0 THEN 0 ELSE IF k > 100 THEN 100 ELSE k

\* r is the normalized score of a raw value as C9 states it
IsNormalizedScore(r, value) ==
    /\ r \in 0..100
    /\ ~JsNumber(value).finite => r = 0
    /\ JsNumber(value).finite =>
          IsRoundedAndClamped(r, IF JsNumber(value).c <= 1000
                                 THEN 10 * JsNumber(value).c ELSE JsNumber(value).c)
    /\ value = Num(7) => r = 70
    /\ value = Num(85) => r = 85
    /\ value = Num(-3) => r = 0
    /\ value = Num(140) => r = 100
    /\ value \in {Undef, Str("abc"), Obj([overall |-> Num(7)]), Huge} => r = 0

\* C9: normalizeScore returns an integer in 0..100 for every input: a finite
\* raw score of at most 10 is multiplied by 10 and one above 10 is taken as
\* is, then rounded and clamped to 0..100; 7 gives 70, 85 gives 85, -3 gives
\* 0, 140 gives 100, and a score that is no number or is missing gives 0.
C9_ScoreNormalized ==
    Answered("audits") =>
        \A i \in DOMAIN jsonFiles :
            \E r \in 0..100 :
                /\ ListedWithScore(jsonFiles[i], r)
                /\ IsNormalizedScore(r, rawScore(documentOf(jsonFiles[i])))
                /\ normalizeScore(rawScore(documentOf(jsonFiles[i]))) = r

\* a raw score of 8.25 is listed as 83
C9_Witness ==
    /\ Answered("audits")
    /\ \E i \in DOMAIN jsonFiles :
          /\ rawScore(documentOf(jsonFiles[i])) = Dec(825)
          /\ ListedWithScore(jsonFiles[i], 83)

\* the three places a score is looked for, in priority order
scoreLocations(document) ==
    << Get(Get(document, "report"), "overallScore"),
       Get(Get(Get(document, "report"), "score"), "overall"),
       Get(document, "score") >>

\* the first of the places that holds a value, undefined when none does
firstPresentScore(document) ==
    LET places  == scoreLocations(document)
        present == {k \in DOMAIN places : ~IsNullish(places[k])}
    IN  IF present = {} THEN Undef
        ELSE places[CHOOSE k \in present : \A j \in present : k <= j]

\* C10: the raw score of a cache file is taken from the first present of
\* report.overallScore, report.score.overall and the top-level score, and
\* then normalized; report.overallScore 8.5 with no top-level score gives 85
\* and a file with none of the three gives 0.
C10_FirstPresentScore ==
    Answered("audits") =>
        \A i \in DOMAIN jsonFiles :
            LET document == documentOf(jsonFiles[i])
                places   == scoreLocations(document)
            IN  /\ ListedWithScore(jsonFiles[i], normalizeScore(firstPresentScore(document)))
                /\ (places[1] = Dec(850) /\ places[3] = Undef) =>
                      ListedWithScore(jsonFiles[i], 85)
                /\ (\A k \in DOMAIN places : IsNullish(places[k])) =>
                      ListedWithScore(jsonFiles[i], 0)

\* no report.overallScore, report.score.overall 7 and a top-level score of
\* 140: the file is listed with score 70
C10_Witness ==
    /\ Answered("audits")
    /\ \E i \in DOMAIN jsonFiles :
          /\ IsNullish(scoreLocations(documentOf(jsonFiles[i]))[1])
          /\ scoreLocations(documentOf(jsonFiles[i]))[2] = Num(7)
          /\ scoreLocations(documentOf(jsonFiles[i]))[3] = Num(140)
          /\ ListedWithScore(jsonFiles[i], 70)

-----------------------------------------------------------------------------
(* AgentDirectory: normalizeModelName, formatWorkspaceName,                *)
(* loadWorkspaceAgents, buildAgentSummary, loadAgents, GET /api/agents.    *)

\* name.includes('sprint worker'), on the job names the sources hold
includesSprintWorker(s) == s \in {"sprint worker", "prospect sprint worker"}

\* name.includes('sales'), on the job names the sources hold
includesSales(s) == s \in {"sales digest"}

\* name.includes('prospect'), on the job names the sources hold
includesProspect(s) == s \in {"prospect sprint worker"}

\* lines 279-293, on the model names the sources hold
normalizeModelName(value) ==
    IF value.t # "string" THEN Null
    ELSE IF value.v = "" THEN Null
    ELSE IF value.v = "anthropic/claude-opus-4" THEN Str("opus")
    ELSE IF value.v = "ollama/qwen2.5" THEN Str("qwen")
    ELSE value

\* lines 295-301, on the directory names the sources hold
formatWorkspaceName(value) ==
    IF value = "sales-agent" THEN "Sales Agent"
    ELSE IF value = "max" THEN "Max"
    ELSE value

\* the place of a directory name in the order of Array.prototype.sort
nameRank(name) == IF name = "max" THEN 1 ELSE IF name = "sales-agent" THEN 2 ELSE 3

RECURSIVE sortNames(_)
sortNames(names) ==
    IF names = <<>> THEN <<>>
    ELSE LET before == sortNames(SubSeq(names, 1, Len(names) - 1))
             name   == names[Len(names)]
             ahead  == {i \in DOMAIN before : nameRank(before[i]) <= nameRank(name)}
             k      == IF ahead = {} THEN 0 ELSE CHOOSE i \in ahead : \A j \in ahead : j <= i
         IN  SubSeq(before, 1, k) \o <<name>> \o SubSeq(before, k + 1, Len(before))

loadWorkspaceAgents ==
    IF agentDirs.workspaces = Missing THEN <<>>
    ELSE LET dirs == SelectSeq(agentDirs.workspaces, LAMBDA entry : entry.isDirectory)
         IN  sortNames([i \in DOMAIN dirs |-> dirs[i].name])

\* the comparator of line 570, a NaN result counting as 0
compareLastRun(a, b) ==
    IF a.lastRunAt.t = "null" \/ b.lastRunAt.t = "null" THEN 0
    ELSE DateParse(b.lastRunAt) - DateParse(a.lastRunAt)

\* the length of the run the array starts with: strictly descending when the
\* second element compares below the first, else non-descending
RECURSIVE runLengthFrom(_, _, _)
runLengthFrom(jobs, idx, isDescending) ==
    IF idx > Len(jobs) THEN idx - 1
    ELSE LET order == compareLastRun(jobs[idx], jobs[idx - 1])
         IN  IF (isDescending /\ order >= 0) \/ (~isDescending /\ order < 0)
             THEN idx - 1
             ELSE runLengthFrom(jobs, idx + 1, isDescending)

Reverse(seq) == [i \in DOMAIN seq |-> seq[Len(seq) + 1 - i]]

\* binary search of the place of pivot among the sorted first elements
RECURSIVE insertionPoint(_, _, _, _)
insertionPoint(sorted, pivot, left, right) ==
    IF left >= right THEN left
    ELSE LET mid == left + ((right - left) \div 2)
         IN  IF compareLastRun(pivot, sorted[mid + 1]) < 0
             THEN insertionPoint(sorted, pivot, left, mid)
             ELSE insertionPoint(sorted, pivot, mid + 1, right)

RECURSIVE binaryInsertionSort(_, _)
binaryInsertionSort(sorted, rest) ==
    IF rest = <<>> THEN sorted
    ELSE LET pivot == Head(rest)
             at    == insertionPoint(sorted, pivot, 0, Len(sorted))
         IN  binaryInsertionSort(
                 SubSeq(sorted, 1, at) \o <<pivot>> \o SubSeq(sorted, at + 1, Len(sorted)),
                 Tail(rest))

\* [...jobs].sort(comparator) as the engine sorts a short array: the leading
\* run is found (and reversed when descending), the rest is inserted
sortByLastRun(jobs) ==
    IF Len(jobs) < 2 THEN jobs
    ELSE LET isDescending == compareLastRun(jobs[2], jobs[1]) < 0
             runLength    == runLengthFrom(jobs, 3, isDescending)
             run          == SubSeq(jobs, 1, runLength)
         IN  binaryInsertionSort(IF isDescending THEN Reverse(run) ELSE run,
                                 SubSeq(jobs, runLength + 1, Len(jobs)))

\* the first element of a list, null when there is none
FirstOrNull(seq) == IF seq = <<>> THEN Null ELSE seq[1]

\* lines 557-592
buildAgentSummary(id, name, jobs, workspaces) ==
    LET runningJob == FirstOrNull(SelectSeq(jobs, LAMBDA job : job.status = "running"))
        latestJob  == FirstOrNull(sortByLastRun(jobs))
        named      == SelectSeq([i \in DOMAIN jobs |-> normalizeModelName(jobs[i].model)],
                                LAMBDA model : model.t = "string")
        models     == SelectSeq([i \in DOMAIN named |->
                                    IF \E j \in 1..(i - 1) : named[j] = named[i]
                                    THEN Null ELSE named[i]],
                                LAMBDA model : model.t = "string")
    IN  [ id |-> id,
          name |-> name,
          model |-> IF models = <<>> THEN "unknown" ELSE models[1].v,
          status |-> IF runningJob # Null THEN "active"
                     ELSE IF Len(jobs) > 0 THEN "scheduled" ELSE "idle",
          cronJobs |-> Len(jobs),
          currentTask |-> IF runningJob # Null THEN runningJob.name
                          ELSE IF latestJob # Null THEN latestJob.name
                          ELSE "Awaiting scheduled work",
          lastRunAt |-> IF latestJob # Null THEN latestJob.lastRunAt ELSE Null,
          nextRunAt |-> IF runningJob # Null /\ runningJob.nextRunAt.t # "null"
                        THEN runningJob.nextRunAt
                        ELSE IF latestJob # Null THEN latestJob.nextRunAt ELSE Null,
          models |-> [i \in DOMAIN models |-> models[i].v],
          workspaces |-> workspaces ]

isSprintJob(job) == includesSprintWorker(toLowerCase(job.name))

isSalesJob(job) ==
    includesSales(toLowerCase(job.name)) \/ includesProspect(toLowerCase(job.name))

\* lines 594-651
loadAgents ==
    IF loadCronJobs.threw THEN Threw
    ELSE LET workspaceAgents == loadWorkspaceAgents
             jobs       == loadCronJobs.jobs
             sprintJobs == SelectSeq(jobs, isSprintJob)
             salesJobs  == SelectSeq(jobs, isSalesJob)
             maxJobs    == SelectSeq(jobs, LAMBDA job : ~isSprintJob(job) /\ ~isSalesJob(job))
             agents ==
                 (IF Len(maxJobs) > 0
                  THEN <<buildAgentSummary("max", "Max (COO)", maxJobs,
                            IF Len(workspaceAgents) > 0
                            THEN [i \in DOMAIN workspaceAgents |->
                                     formatWorkspaceName(workspaceAgents[i])]
                            ELSE <<"Workspace">>)>>
                  ELSE <<>>)
                 \o (IF Len(sprintJobs) > 0
                     THEN <<buildAgentSummary("sprint-worker", "Sprint Worker", sprintJobs,
                               <<"Workspace">>)>>
                     ELSE <<>>)
                 \o (IF Len(salesJobs) > 0 \/ agentDirs.salesData
                     THEN <<buildAgentSummary("sales-agent", "Sales Agent", salesJobs,
                               <<"Sales Agent">>)>>
                     ELSE <<>>)
         IN  [ threw |-> FALSE,
               agents |-> agents,
               count |-> Len(agents),
               workspaceAgents |-> workspaceAgents,
               checkedAt |-> IsoStr(now) ]

\* GET /api/agents
HandleAgents ==
    /\ response = NoResponse
    /\ response' = Respond("agents", loadAgents)
    /\ UNCHANGED <<clockVars, cronVars, leadVars, revenueVars, auditDir, restVars>>

\* the sales-agent data directories are removed
SalesDataRemoved ==
    /\ response = NoResponse
    /\ agentDirs.salesData
    /\ agentDirs' = [agentDirs EXCEPT !.salesData = FALSE]
    /\ UNCHANGED <<clockVars, cronVars, leadVars, revenueVars, auditDir,
                   logDir, host, statusVars, response>>

AgentJob(id, name, enabled, state, model) ==
    Obj([id |-> id, name |-> name, enabled |-> enabled, state |-> state,
         payload |-> Obj([model |-> model])])

\* the jobs of the agents: running after a failure, failed just now, never
\* run, completed a day ago, disabled, timed out just now
AgentJobPool ==
    { AgentJob(Str("a1"), Str("Nightly"), Bool(TRUE),
               StateOf(Num(now), Str("failed"), Undef, Num(now - 2 * DayMs)),
               Str("anthropic/claude-opus-4")),
      AgentJob(Str("a2"), Str("Digest"), Undef,
               StateOf(Undef, Str("failed"), Undef, Num(now)), Undef),
      AgentJob(Str("a3"), Str("Backup"), Bool(TRUE), Undef, Str("ollama/qwen2.5")),
      AgentJob(Str("a4"), Str("Sprint Worker"), Bool(TRUE),
               StateOf(Undef, Undef, Str("Completed"), Num(now - DayMs)), Undef),
      AgentJob(Str("a5"), Str("Sales Digest"), Bool(FALSE),
               StateOf(Undef, Str("ok"), Undef, Num(now - DayMs)), Undef),
      AgentJob(Str("a6"), Str("Prospect Sprint Worker"), Bool(TRUE),
               StateOf(Undef, Str("TIMEOUT"), Undef, Num(now)), Undef) }

WorkspaceListingPool ==
    {Missing, <<>>,
     << [name |-> "sales-agent", isDirectory |-> TRUE],
        [name |-> "README.md", isDirectory |-> FALSE],
        [name |-> "max", isDirectory |-> TRUE] >>}

InitOthersForAgents ==
    /\ salesDb = Missing /\ leadsFile = Missing /\ batchFiles = <<>>
    /\ paymentsFile = Missing /\ metricsFile = Missing
    /\ auditDir = Missing
    /\ NoLogs /\ NoHost /\ NoStatus

InitAgents ==
    /\ tz = 0
    /\ now = 20 * DayMs
    /\ \E jobs \in SeqsUpTo(AgentJobPool, MaxJobs) :
          \/ /\ cronCli = [ok |-> TRUE, stdout |-> Json(Arr(jobs))]
             /\ cronFile = Missing
          \/ /\ cronCli = [ok |-> FALSE, stdout |-> Blank]
             /\ cronFile \in {Json(Obj([jobs |-> Arr(jobs)])), Json(Null)}
    /\ agentDirs \in [workspaces : WorkspaceListingPool, salesData : BOOLEAN]
    /\ response = NoResponse
    /\ InitOthersForAgents

NextAgents == HandleAgents \/ HandleCrons \/ Send \/ SalesDataRemoved \/ CliGoesDown

SpecAgents == InitAgents /\ [][NextAgents]_vars

-----------------------------------------------------------------------------
(* Claims about the derived status of cron jobs and about /api/agents.     *)

\* the last recorded outcome of a raw job, lowercased
lastOutcome(raw) ==
    LET state == Coalesce(Get(raw, "state"), EmptyObject)
    IN  toLowerCase(JsString(Coalesce(Get(state, "lastStatus"),
                             Coalesce(Get(state, "lastRunStatus"), Str("")))))

hasRunningMarker(raw) ==
    Get(Coalesce(Get(raw, "state"), EmptyObject), "runningAtMs").t = "number"

\* C11: for an enabled cron job the status is `running` when the job carries
\* a numeric state.runningAtMs, else `ok` when the last outcome is one of
\* ok/success/completed, else `error` when it is one of error/failed/timeout
\* (whatever the case of the letters), else `idle`; an enabled job with no
\* runningAtMs and lastStatus "failed" is `error`, and a running job whose
\* last outcome was a failure is `running`.
C11_EnabledStatusOrder ==
    Answered("crons") =>
        \A i \in DOMAIN response.body.jobs :
            LET status == response.body.jobs[i].status
                raw    == RawJobsOf(response.body.source)[i]
            IN  ~IsFalse(Get(raw, "enabled")) =>
                  /\ hasRunningMarker(raw) => status = "running"
                  /\ (~hasRunningMarker(raw)
                        /\ lastOutcome(raw) \in {"ok", "success", "completed"})
                        => status = "ok"
                  /\ (~hasRunningMarker(raw)
                        /\ lastOutcome(raw) \in {"error", "failed", "timeout"})
                        => status = "error"
                  /\ (~hasRunningMarker(raw)
                        /\ lastOutcome(raw) \notin
                              {"ok", "success", "completed", "error", "failed", "timeout"})
                        => status = "idle"
                  /\ (hasRunningMarker(raw) /\ lastOutcome(raw) = "failed")
                        => status = "running"
                  /\ (Get(Get(raw, "state"), "runningAtMs") = Undef
                        /\ Get(Get(raw, "state"), "lastStatus") = Str("failed"))
                        => status = "error"

\* a running job that failed last time and a job that never ran, listed as
\* running and idle
C11_Witness ==
    /\ Answered("crons")
    /\ Len(response.body.jobs) = 2
    /\ response.body.jobs[1].id = "a1" /\ response.body.jobs[1].status = "running"
    /\ response.body.jobs[2].id = "a3" /\ response.body.jobs[2].status = "idle"

\* the jobs of the cron payload an agent of the response owns
ownedJobs(agentId) ==
    IF agentId = "sprint-worker" THEN SelectSeq(loadCronJobs.jobs, isSprintJob)
    ELSE IF agentId = "sales-agent" THEN SelectSeq(loadCronJobs.jobs, isSalesJob)
    ELSE SelectSeq(loadCronJobs.jobs, LAMBDA job : ~isSprintJob(job) /\ ~isSalesJob(job))

\* the owned jobs that have run
jobsThatRan(jobs) == SelectSeq(jobs, LAMBDA job : job.lastRunAt.t # "null")

\* the instant of the most recent last run among jobs that have run
latestRun(ran) ==
    CHOOSE t \in {DateParse(ran[i].lastRunAt) : i \in DOMAIN ran} :
        \A i \in DOMAIN ran : DateParse(ran[i].lastRunAt) <= t

\* less than six hours, a quarter of a day, before now
WithinSixHours(t) == 4 * (now - t) < DayMs

\* C12: every agent /api/agents returns is `active` when one of its owned
\* jobs is running; else `active` when the most recent last run among its
\* owned jobs is less than 6 hours old; else `scheduled` when it owns a job;
\* else `idle`.
C12_AgentStatus ==
    Answered("agents") =>
        \A a \in DOMAIN response.body.agents :
            LET agent == response.body.agents[a]
                owned == ownedJobs(agent.id)
                ran   == jobsThatRan(owned)
            IN  agent.status =
                    IF \E i \in DOMAIN owned : owned[i].status = "running" THEN "active"
                    ELSE IF ran # <<>> /\ WithinSixHours(latestRun(ran)) THEN "active"
                    ELSE IF owned # <<>> THEN "scheduled"
                    ELSE "idle"

\* the status when the freshness clause is left out
C12_WithoutFreshness ==
    Answered("agents") =>
        \A a \in DOMAIN response.body.agents :
            LET agent == response.body.agents[a]
                owned == ownedJobs(agent.id)
            IN  agent.status =
                    IF \E i \in DOMAIN owned : owned[i].status = "running" THEN "active"
                    ELSE IF owned # <<>> THEN "scheduled"
                    ELSE "idle"

\* C13: currentTask is the name of a running owned job when there is one;
\* else the name of the owned job with the greatest lastRunAt among the
\* owned jobs that have run, also when other owned jobs never ran; else the
\* placeholder text.  The agent's lastRunAt is that job's lastRunAt.
C13_CurrentTask ==
    Answered("agents") =>
        \A a \in DOMAIN response.body.agents :
            LET agent == response.body.agents[a]
                owned == ownedJobs(agent.id)
                ran   == jobsThatRan(owned)
            IN  IF \E i \in DOMAIN owned : owned[i].status = "running"
                THEN \E i \in DOMAIN owned :
                        owned[i].status = "running" /\ agent.currentTask = owned[i].name
                ELSE IF ran # <<>>
                THEN \E i \in DOMAIN ran :
                        /\ DateParse(ran[i].lastRunAt) = latestRun(ran)
                        /\ agent.currentTask = ran[i].name
                        /\ agent.lastRunAt = ran[i].lastRunAt
                ELSE /\ agent.currentTask = "Awaiting scheduled work"
                     /\ agent.lastRunAt = Null

\* the same, of the agents all of whose owned jobs have run
C13_WhenAllOwnedJobsRan ==
    Answered("agents") =>
        \A a \in DOMAIN response.body.agents :
            LET agent == response.body.agents[a]
                owned == ownedJobs(agent.id)
                ran   == jobsThatRan(owned)
            IN  (ran = owned) =>
                IF \E i \in DOMAIN owned : owned[i].status = "running"
                THEN \E i \in DOMAIN owned :
                        owned[i].status = "running" /\ agent.currentTask = owned[i].name
                ELSE IF ran # <<>>
                THEN \E i \in DOMAIN ran :
                        /\ DateParse(ran[i].lastRunAt) = latestRun(ran)
                        /\ agent.currentTask = ran[i].name
                        /\ agent.lastRunAt = ran[i].lastRunAt
                ELSE /\ agent.currentTask = "Awaiting scheduled work"
                     /\ agent.lastRunAt = Null

-----------------------------------------------------------------------------
(* Claims about failures of shape and about the order of the leads.        *)

\* jobs.json holds JSON that is no object with a `jobs` array
CronFileMisshapen ==
    cronFile.k = "json" /\ Get(cronFile.v, "jobs").t # "array"

\* C14: a source yielding well-formed JSON of an unexpected shape never
\* leaves a request unanswered or answered with an error: the handler
\* responds, and the part fed by that source is the empty default.
C14_ShapeMismatchAbsorbed ==
    response # NoResponse =>
        /\ response.outcome = "ok"
        /\ (response.endpoint \in {"crons", "cron-status"}
              /\ response.body.source = "file" /\ CronFileMisshapen)
              => response.body.jobs = <<>>

\* the handler answers whenever no document is null and no job of the CLI
\* array is null
C14_AbsorbedUnlessNull ==
    (/\ response # NoResponse
     /\ cronFile # Json(Null)
     /\ cronCli.stdout.k = "json" =>
           (cronCli.stdout.v.t = "array" =>
               \A i \in DOMAIN cronCli.stdout.v.v : ~IsNullish(cronCli.stdout.v.v[i])))
        => C14_ShapeMismatchAbsorbed

\* C18: the leads of /api/leads are in descending order of createdAt, and
\* every lead whose createdAt is null comes after every lead that has one.
C18_LeadsNewestFirstNullsLast ==
    Answered("leads") =>
        \A i, j \in DOMAIN response.body.leads :
            i < j =>
                LET first  == response.body.leads[i].createdAt
                    second == response.body.leads[j].createdAt
                IN  /\ (first.t # "null" /\ second.t # "null")
                          => DateParse(first) >= DateParse(second)
                    /\ ~(first.t = "null" /\ second.t # "null")

\* the same, when every creation timestamp lies after the epoch
C18_WhenAfterEpoch ==
    (/\ Answered("leads")
     /\ \A i \in DOMAIN response.body.leads :
           response.body.leads[i].createdAt.t # "null"
               => DateParse(response.body.leads[i].createdAt) > 0)
        => C18_LeadsNewestFirstNullsLast

-----------------------------------------------------------------------------
(* ActivityLog: loadRecentActivity, GET /api/activity.  The three limits   *)
(* of the code (the last 50 lines of a file, 75 entries before the scan    *)
(* stops, the last 50 events) are scaled down, their order kept.           *)

MaxLinesPerFile == 2
EntryBudget == 3
MaxEvents == 2
MaxLogLines == 4

\* a line of a log file: stamp is the text the pattern of line 734 matches
\* at its start (undefined when it matches nothing), text the trimmed line
LogLine(stamp, text) == [stamp |-> stamp, text |-> text]

LogFile(name, ext, mtimeMs, lines) ==
    [name |-> name, ext |-> ext, mtimeMs |-> mtimeMs, lines |-> lines]

\* /\.(log|jsonl)$/i
isLogFileName(file) == toLowerCase(file.ext) \in {".log", ".jsonl"}

\* line 725: stable sort, newest file first
RECURSIVE sortLogFiles(_)
sortLogFiles(files) ==
    IF files = <<>> THEN <<>>
    ELSE LET before == sortLogFiles(SubSeq(files, 1, Len(files) - 1))
             file   == files[Len(files)]
             ahead  == {i \in DOMAIN before : before[i].mtimeMs >= file.mtimeMs}
             k      == IF ahead = {} THEN 0 ELSE CHOOSE i \in ahead : \A j \in ahead : j <= i
         IN  SubSeq(before, 1, k) \o <<file>> \o SubSeq(before, k + 1, Len(before))

\* slice(-n)
LastOf(seq, n) == IF Len(seq) <= n THEN seq ELSE SubSeq(seq, Len(seq) - n + 1, Len(seq))

\* lines 730-740: the entries of one file
fileEntries(file) ==
    LET lines == LastOf(SelectSeq(file.lines, LAMBDA line : line.text # ""), MaxLinesPerFile)
    IN  [i \in DOMAIN lines |->
            [ source |-> file.name \o file.ext,
              timestamp |-> IF lines[i].stamp = Undef THEN Null ELSE toIso(lines[i].stamp),
              line |-> lines[i].text ]]

\* every file is read, whatever the number of entries
RECURSIVE accumulate_NoBreak(_, _)
accumulate_NoBreak(entries, files) ==
    IF files = <<>> THEN entries
    ELSE accumulate_NoBreak(entries \o fileEntries(Head(files)), Tail(files))

\* lines 729-743: the files are read until the entries reach the budget
RECURSIVE accumulate(_, _)
accumulate(entries, files) ==
    IF files = <<>> THEN entries
    ELSE LET more == entries \o fileEntries(Head(files))
         IN  IF Len(more) >= EntryBudget THEN more ELSE accumulate(more, Tail(files))

accumulatedEntries ==
    IF logDir = Missing THEN <<>>
    ELSE accumulate(<<>>, sortLogFiles(SelectSeq(logDir.files, isLogFileName)))

\* lines 746-747: a.timestamp ? Date.parse(a.timestamp) : 0
eventSortKey(entry) == IF entry.timestamp.t = "null" THEN 0 ELSE DateParse(entry.timestamp)

\* lines 745-750: stable sort, oldest first
RECURSIVE sortEvents(_)
sortEvents(entries) ==
    IF entries = <<>> THEN <<>>
    ELSE LET before == sortEvents(SubSeq(entries, 1, Len(entries) - 1))
             entry  == entries[Len(entries)]
             ahead  == {i \in DOMAIN before : eventSortKey(before[i]) <= eventSortKey(entry)}
             k      == IF ahead = {} THEN 0 ELSE CHOOSE i \in ahead : \A j \in ahead : j <= i
         IN  SubSeq(before, 1, k) \o <<entry>> \o SubSeq(before, k + 1, Len(before))

loadRecentActivity == LastOf(sortEvents(accumulatedEntries), MaxEvents)

\* the handler empties the log directory once it has read it
HandleActivity_ClearsLogs ==
    /\ response = NoResponse
    /\ response' = Respond("activity",
                      [threw |-> FALSE, events |-> loadRecentActivity,
                       count |-> Len(loadRecentActivity)])
    /\ logDir' = Missing
    /\ UNCHANGED <<clockVars, cronVars, leadVars, revenueVars, auditDir,
                   agentDirs, host, statusVars>>

\* GET /api/activity
HandleActivity ==
    /\ response = NoResponse
    /\ response' = Respond("activity",
                      [threw |-> FALSE, events |-> loadRecentActivity,
                       count |-> Len(loadRecentActivity)])
    /\ UNCHANGED <<clockVars, cronVars, leadVars, revenueVars, auditDir, restVars>>

\* the log directory is removed
LogDirRemoved ==
    /\ response = NoResponse
    /\ logDir # Missing
    /\ logDir' = Missing
    /\ UNCHANGED <<clockVars, cronVars, leadVars, revenueVars, auditDir,
                   agentDirs, host, statusVars, response>>

\* the lines the three log files may hold
TaggedLogLinePool ==
    ({"gateway"} \X {LogLine(Undef, "boot"), LogLine(IsoStr(5), "up"),
                     LogLine(IsoStr(-3), "old"), LogLine(Undef, "")})
    \cup ({"cron"} \X {LogLine(Undef, "tick"), LogLine(IsoStr(9), "run"),
                       LogLine(Str("2024-13-45Tx"), "odd")})
    \cup ({"archive"} \X {LogLine(IsoStr(7), "kept")})

\* the modification times of the three files and the suffix of the third
LogDirShapes ==
    { [mtimes |-> <<3, 2, 1>>, ext |-> ".jsonl"],
      [mtimes |-> <<1, 2, 3>>, ext |-> ".LOG"],
      [mtimes |-> <<2, 2, 1>>, ext |-> ".txt"] }

LogDirOf(all, shape) ==
    [k |-> "dir",
     files |-> << LogFile("gateway", ".log", shape.mtimes[1], Tagged(all, "gateway")),
                  LogFile("cron", ".log", shape.mtimes[2], Tagged(all, "cron")),
                  LogFile("archive", shape.ext, shape.mtimes[3], Tagged(all, "archive")) >>]

InitOthersForActivity ==
    /\ now = 0 /\ tz = 0
    /\ cronCli = [ok |-> FALSE, stdout |-> Blank] /\ cronFile = Missing
    /\ salesDb = Missing /\ leadsFile = Missing /\ batchFiles = <<>>
    /\ paymentsFile = Missing /\ metricsFile = Missing
    /\ auditDir = Missing
    /\ NoAgentDirs /\ NoHost /\ NoStatus

InitActivity ==
    /\ logDir \in {Missing} \cup
          {LogDirOf(all, shape) :
              all \in SeqsUpTo(TaggedLogLinePool, MaxLogLines), shape \in LogDirShapes}
    /\ response = NoResponse
    /\ InitOthersForActivity

NextActivity == HandleActivity \/ Send \/ LogDirRemoved

SpecActivity == InitActivity /\ [][NextActivity]_vars

-----------------------------------------------------------------------------
(* Recent activity claims.                                                 *)

Stamped(event) == event.timestamp.t # "null"

\* event a belongs strictly before event b: no timestamp before any
\* timestamp, an earlier timestamp before a later one
StrictlyEarlier(a, b) ==
    \/ ~Stamped(a) /\ Stamped(b)
    \/ Stamped(a) /\ Stamped(b) /\ DateParse(a.timestamp) < DateParse(b.timestamp)

Occurrences(seq, x) == Cardinality({i \in DOMAIN seq : seq[i] = x})

\* C17: /api/activity holds at most MaxEvents events, ascending by
\* timestamp with the events that have no timestamp before every one that
\* has, and when more entries were accumulated the events are the latest
\* MaxEvents entries of that order: only the earliest ones are dropped.
C17_LatestEventsInOrder ==
    Answered("activity") =>
        LET events == response.body.events
            all    == accumulatedEntries
        IN  /\ Len(events) <= MaxEvents
            /\ response.body.count = Len(events)
            /\ \A i, j \in DOMAIN events : i < j => ~StrictlyEarlier(events[j], events[i])
            /\ Len(events) = IF Len(all) > MaxEvents THEN MaxEvents ELSE Len(all)
            /\ \A i \in DOMAIN events : Occurrences(events, events[i]) <= Occurrences(all, events[i])
            /\ \A i \in DOMAIN all :
                  Occurrences(events, all[i]) < Occurrences(all, all[i])
                      => \A j \in DOMAIN events : ~StrictlyEarlier(events[j], all[i])

\* the same, when every timestamp of the accumulated entries lies after
\* the epoch
C17_WhenAfterEpoch ==
    (/\ Answered("activity")
     /\ \A i \in DOMAIN accumulatedEntries :
           Stamped(accumulatedEntries[i]) => DateParse(accumulatedEntries[i].timestamp) > 0)
        => C17_LatestEventsInOrder

\* more than MaxEvents entries were accumulated, some without a timestamp,
\* and the scan stopped before the oldest file
C17_TruncatedCase ==
    /\ Answered("activity")
    /\ Len(accumulatedEntries) > MaxEvents
    /\ \E i \in DOMAIN accumulatedEntries : ~Stamped(accumulatedEntries[i])
    /\ \A i \in DOMAIN accumulatedEntries :
          Stamped(accumulatedEntries[i]) => DateParse(accumulatedEntries[i].timestamp) > 0
    /\ Len(logDir.files[3].lines) > 0
    /\ \A i \in DOMAIN accumulatedEntries : accumulatedEntries[i].source # "archive.jsonl"

-----------------------------------------------------------------------------
(* ServiceStatus: safeExec, fetchBoolean, GET /api/status.  Time is the    *)
(* number of seconds since the request arrived.                            *)

AbortAfter == 4
ExecTimeout == 15

Services == {"gateway", "ollama"}

\* String.prototype.trim, on the outputs the model uses
trim(s) == IF s \in {" ", ""} THEN "" ELSE IF s = "4242 " THEN "4242" ELSE s

\* safeExec, on the outcome of execAsync: on failure only what was
\* captured is kept
safeExec_DropsOutput(outcome) ==
    IF outcome.kind = "success"
    THEN [stdout |-> outcome.stdout, stderr |-> outcome.stderr, ok |-> TRUE]
    ELSE [stdout |-> Str(""), stderr |-> Str(""), ok |-> FALSE]

\* safeExec, on the outcome of execAsync
safeExec(outcome) ==
    IF outcome.kind = "success"
    THEN [stdout |-> outcome.stdout, stderr |-> outcome.stderr, ok |-> TRUE]
    ELSE [stdout |-> Coalesce(outcome.stdout, Str("")),
          stderr |-> Coalesce(outcome.stderr, Coalesce(outcome.message, Str(""))),
          ok |-> FALSE]

\* a companion service answers the probe before the abort timer is due:
\* with a 2xx status, with another status, or by refusing the connection
AnswersInTime(service) == service \in {"up", "erroring", "refusing"}

\* line 152: return response.ok; line 154: catch { return false }
fetchResult(service) == service = "up"

\* the timer of line 148 never fires
abortTimerDue_Never(elapsed) == FALSE

\* line 148: setTimeout(() => controller.abort(), 4_000)
abortTimerDue(elapsed) == elapsed = AbortAfter

PendingProbe == [state |-> "pending", value |-> FALSE, timer |-> "armed", at |-> 0]

SettledProbe(value, at) == [state |-> "settled", value |-> value, timer |-> "cleared", at |-> at]

PendingExec == [state |-> "pending"]

Waiting == statusReq.pc = "waiting"

\* GET /api/status arrives: Promise.all starts the two probes and the command
StartStatus ==
    /\ response = NoResponse
    /\ statusReq = NoStatusRequest
    /\ statusReq' = [pc |-> "waiting", elapsed |-> 0,
                     probes |-> [s \in Services |-> PendingProbe],
                     exec |-> PendingExec]
    /\ UNCHANGED <<clockVars, cronVars, leadVars, revenueVars, auditDir,
                   agentDirs, logDir, host, services, pgrep, response>>

\* fetch settles: the try or the catch returns, the finally clears the timer
FetchSettles(s) ==
    /\ Waiting
    /\ statusReq.probes[s].state = "pending"
    /\ AnswersInTime(services[s])
    /\ statusReq.elapsed < AbortAfter
    /\ statusReq' = [statusReq EXCEPT
                        !.probes[s] = SettledProbe(fetchResult(services[s]), statusReq.elapsed)]
    /\ UNCHANGED <<clockVars, cronVars, leadVars, revenueVars, auditDir,
                   agentDirs, logDir, host, services, pgrep, response>>

\* the timer fires: abort rejects the fetch, the catch returns false
AbortFires(s) ==
    /\ Waiting
    /\ statusReq.probes[s].state = "pending"
    /\ abortTimerDue(statusReq.elapsed)
    /\ statusReq' = [statusReq EXCEPT !.probes[s] = SettledProbe(FALSE, statusReq.elapsed)]
    /\ UNCHANGED <<clockVars, cronVars, leadVars, revenueVars, auditDir,
                   agentDirs, logDir, host, services, pgrep, response>>

\* execAsync settles, at its timeout when the command is still running
ExecSettles ==
    /\ Waiting
    /\ statusReq.exec.state = "pending"
    /\ IF pgrep.kind = "timeout" THEN statusReq.elapsed = ExecTimeout
                                 ELSE statusReq.elapsed < ExecTimeout
    /\ statusReq' = [statusReq EXCEPT
                        !.exec = [state |-> "settled", at |-> statusReq.elapsed,
                                  result |-> safeExec(pgrep)]]
    /\ UNCHANGED <<clockVars, cronVars, leadVars, revenueVars, auditDir,
                   agentDirs, logDir, host, services, pgrep, response>>

\* a second passes; nothing that is due is passed over
Tick ==
    /\ Waiting
    /\ statusReq.elapsed < ExecTimeout
    /\ \/ \E s \in Services : statusReq.probes[s].state = "pending"
       \/ statusReq.exec.state = "pending"
    /\ \A s \in Services :
          statusReq.probes[s].state = "pending" =>
              /\ statusReq.elapsed < AbortAfter
              /\ AnswersInTime(services[s]) => statusReq.elapsed + 1 < AbortAfter
    /\ (statusReq.exec.state = "pending" /\ pgrep.kind # "timeout")
          => statusReq.elapsed + 1 < ExecTimeout
    /\ statusReq' = [statusReq EXCEPT !.elapsed = @ + 1]
    /\ UNCHANGED <<clockVars, cronVars, leadVars, revenueVars, auditDir,
                   agentDirs, logDir, host, services, pgrep, response>>

\* lines 761-766: res.json once Promise.all has all three values
FinishStatus ==
    /\ Waiting
    /\ response = NoResponse
    /\ \A s \in Services : statusReq.probes[s].state = "settled"
    /\ statusReq.exec.state = "settled"
    /\ response' = Respond("status",
          [threw |-> FALSE,
           gateway |-> statusReq.probes["gateway"].value,
           whatsapp |-> statusReq.exec.result.ok
                          /\ trim(statusReq.exec.result.stdout.v) # "",
           ollama |-> statusReq.probes["ollama"].value,
           checkedAt |-> IsoStr(now)])
    /\ statusReq' = NoStatusRequest
    /\ UNCHANGED <<clockVars, cronVars, leadVars, revenueVars, auditDir,
                   agentDirs, logDir, host, services, pgrep>>

\* a companion service stops answering
ServiceHangs(s) ==
    /\ response = NoResponse
    /\ statusReq = NoStatusRequest
    /\ services[s] # "hanging"
    /\ services' = [services EXCEPT ![s] = "hanging"]
    /\ UNCHANGED <<clockVars, cronVars, leadVars, revenueVars, auditDir,
                   agentDirs, logDir, host, pgrep, statusReq, response>>

ServicePool == {"up", "slow", "erroring", "refusing", "hanging"}

ExecOutcomePool ==
    { ExecOutcome("success", Str("4242 "), Str(""), Undef),
      ExecOutcome("success", Str(" "), Str(""), Undef),
      ExecOutcome("exit", Str(""), Str(""), Str("Command failed")),
      ExecOutcome("exit", Str("4242 "), Str("pgrep: warning"), Str("Command failed")),
      ExecOutcome("timeout", Str("4242 "), Str(""), Str("Command failed")),
      ExecOutcome("timeout", Str(""), Str(""), Str("Command failed")),
      ExecOutcome("overflow", Str("4242 "), Str(""), Str("stdout maxBuffer length exceeded")),
      ExecSpawnFailure,
      ExecOutcome("spawn-failure", Undef, Undef, Undef) }

InitOthersForStatus ==
    /\ now = 0 /\ tz = 0
    /\ cronCli = [ok |-> FALSE, stdout |-> Blank] /\ cronFile = Missing
    /\ salesDb = Missing /\ leadsFile = Missing /\ batchFiles = <<>>
    /\ paymentsFile = Missing /\ metricsFile = Missing
    /\ auditDir = Missing
    /\ NoAgentDirs /\ NoLogs /\ NoHost

InitStatus ==
    /\ services \in [Services -> ServicePool]
    /\ pgrep \in ExecOutcomePool
    /\ statusReq = NoStatusRequest
    /\ response = NoResponse
    /\ InitOthersForStatus

NextStatus ==
    \/ StartStatus
    \/ \E s \in Services : FetchSettles(s)
    \/ \E s \in Services : AbortFires(s)
    \/ ExecSettles
    \/ Tick
    \/ FinishStatus
    \/ Send
    \/ \E s \in Services : ServiceHangs(s)

SpecStatus == InitStatus /\ [][NextStatus]_vars

\* timers fire and settled promises are continued: the event loop runs
\* every callback that is due
FairSpecStatus ==
    /\ SpecStatus
    /\ WF_vars(Tick)
    /\ WF_vars(\E s \in Services : FetchSettles(s))
    /\ WF_vars(\E s \in Services : AbortFires(s))
    /\ WF_vars(ExecSettles)
    /\ WF_vars(FinishStatus)

-----------------------------------------------------------------------------
(* Service status claims.                                                  *)

IsString(value) == value.t = "string"

\* C16: whatever the outcome of the command (success, non-zero exit,
\* timeout at ExecTimeout, output over the cap, spawn failure), safeExec
\* resolves to {stdout, stderr, ok}: ok is true only on success, and on
\* failure stdout is the captured output, or the empty string when none
\* was captured.
C16_SafeExecResolves ==
    Waiting =>
        IF statusReq.exec.state = "pending"
        THEN statusReq.elapsed <= ExecTimeout
        ELSE LET result == statusReq.exec.result
             IN  /\ DOMAIN result = {"stdout", "stderr", "ok"}
                 /\ IsString(result.stdout) /\ IsString(result.stderr)
                 /\ result.ok = (pgrep.kind = "success")
                 /\ statusReq.exec.at <= ExecTimeout
                 /\ result.stdout = IF IsNullish(pgrep.stdout) THEN Str("") ELSE pgrep.stdout

\* the command was killed at its timeout after it had printed something
C16_Witness ==
    /\ Waiting
    /\ statusReq.exec.state = "settled"
    /\ pgrep.kind = "timeout"
    /\ statusReq.exec.at = ExecTimeout
    /\ statusReq.exec.result = [stdout |-> Str("4242 "), stderr |-> Str(""), ok |-> FALSE]

\* every probe in flight has its timer armed and the timer is not overdue;
\* every settled probe settled no later than its timer, with the timer
\* cleared, and to false unless its service answered with a 2xx status
ProbesBounded ==
    Waiting =>
        \A s \in Services :
            LET probe == statusReq.probes[s]
            IN  IF probe.state = "pending"
                THEN probe.timer = "armed" /\ statusReq.elapsed <= AbortAfter
                ELSE /\ probe.timer = "cleared"
                     /\ probe.at <= AbortAfter
                     /\ probe.value \in BOOLEAN
                     /\ services[s] # "up" => probe.value = FALSE

\* each flag of the response is decided by its own source alone
FlagsIndependent ==
    Answered("status") =>
        /\ \A s \in Services : response.body[s] = (services[s] = "up")
        /\ response.body.whatsapp =
              (pgrep.kind = "success" /\ trim(pgrep.stdout.v) # "")

\* C19: no probe outlasts its abort timer, a probe never rejects and
\* clears its timer on every path; every /api/status request is
\* eventually answered; a hung or failing probe makes its own flag false
\* and leaves the other flags as their own sources decide them.
C19_StatusAlwaysResponds ==
    /\ []ProbesBounded
    /\ []FlagsIndependent
    /\ (Waiting ~> Answered("status"))

\* ollama never answers; the response reports the gateway and the
\* whatsapp process as up and ollama as down
C19_Witness ==
    /\ Answered("status")
    /\ services["ollama"] = "hanging"
    /\ response.body.gateway /\ response.body.whatsapp
    /\ ~response.body.ollama

-----------------------------------------------------------------------------
(* SystemMetrics: loadDiskUsage, loadActiveSessions, countDraftFiles,      *)
(* GET /api/system.                                                        *)

\* a whitespace-separated field of a line df printed, with the value
\* Number() gives it once '%' is removed
DfField(text, number) == [text |-> text, number |-> number]

DfHeader ==
    << DfField("Filesystem", NaN), DfField("1K-blocks", NaN), DfField("Used", NaN),
       DfField("Available", NaN), DfField("Use%", NaN), DfField("Mounted", NaN) >>

DfRow(totalKb, usedKb, percent) ==
    << DfField("/dev/disk1", NaN), DfField("total", Finite(totalKb)),
       DfField("used", Finite(usedKb)), DfField("free", Finite(totalKb - usedKb)),
       DfField("percent", Finite(percent)), DfField("/", NaN) >>

\* stdout of df: its last line, as fields
DfOutput(lastLine) == [k |-> "lines", last |-> lastLine]

\* Number(x) || 0
fieldOrZero(field) == IF field.number.finite THEN field.number.c ELSE 0

\* a size in GiB, kept in tenths
Tenths(n) == [tenths |-> n]

\* Math.round((kb / 1024 / 1024) * 10) / 10
kbToGb(kb) == Tenths((20 * kb + 1048576) \div 2097152)

ZeroDisk == [usedPercent |-> 0, usedGb |-> Tenths(0), totalGb |-> Tenths(0)]

\* a line of five fields is taken as too short
loadDiskUsage_BelowSixFields ==
    LET parts == IF host.df.stdout = Blank THEN <<DfField("", NaN)>> ELSE host.df.stdout.last
    IN  IF Len(parts) < 6 THEN ZeroDisk
        ELSE [usedPercent |-> fieldOrZero(parts[5]),
              usedGb |-> kbToGb(fieldOrZero(parts[3])),
              totalGb |-> kbToGb(fieldOrZero(parts[2]))]

\* loadDiskUsage: the last line of stdout, whether or not df succeeded
loadDiskUsage ==
    LET parts == IF host.df.stdout = Blank THEN <<DfField("", NaN)>> ELSE host.df.stdout.last
    IN  IF Len(parts) < 5 THEN ZeroDisk
        ELSE [usedPercent |-> fieldOrZero(parts[5]),
              usedGb |-> kbToGb(fieldOrZero(parts[3])),
              totalGb |-> kbToGb(fieldOrZero(parts[2]))]

\* the output of a command that failed is parsed all the same
loadActiveSessions_IgnoresOk ==
    LET out == host.sessions.stdout
    IN  IF out.k # "json" THEN 0
        ELSE IF out.v.t = "array" THEN Len(out.v.v)
        ELSE IF out.v.t = "object" /\ Get(out.v, "sessions").t = "array"
             THEN Len(Get(out.v, "sessions").v)
        ELSE 0

\* loadActiveSessions
loadActiveSessions ==
    LET out == host.sessions.stdout
    IN  IF ~host.sessions.ok \/ out = Blank THEN 0
        ELSE IF out.k # "json" THEN 0
        ELSE IF out.v.t = "array" THEN Len(out.v.v)
        ELSE IF out.v.t = "object" /\ Get(out.v, "sessions").t = "array"
             THEN Len(Get(out.v, "sessions").v)
        ELSE 0

\* countDraftFiles: the entries of the drafts directory that are files
countDraftFiles ==
    IF host.drafts = Missing THEN 0
    ELSE Cardinality({i \in DOMAIN host.drafts.entries : host.drafts.entries[i] = "file"})

\* Math.round of a quotient of non-negative integers
roundDiv(n, d) == (2 * n + d) \div (2 * d)

Min(a, b) == IF a < b THEN a ELSE b

\* lines 816-846
systemPayload ==
    LET os    == host.os
        cores == IF os.cores = 0 THEN 1 ELSE os.cores
        used  == os.totalMem - os.freeMem
    IN  [threw |-> FALSE,
         cpu |-> [usedPercent |-> Min(100, roundDiv(os.load, cores)), cores |-> cores],
         memory |-> [usedPercent |-> roundDiv(100 * used, os.totalMem),
                     usedGb |-> Tenths(roundDiv(10 * used, 1024)),
                     totalGb |-> Tenths(roundDiv(10 * os.totalMem, 1024))],
         disk |-> loadDiskUsage,
         uptime |-> [seconds |-> os.uptime],
         activeSessions |-> loadActiveSessions,
         draftsPending |-> countDraftFiles,
         checkedAt |-> IsoStr(now)]

\* GET /api/system
HandleSystem ==
    /\ response = NoResponse
    /\ response' = Respond("system", systemPayload)
    /\ UNCHANGED <<clockVars, cronVars, leadVars, revenueVars, auditDir, restVars>>

-----------------------------------------------------------------------------
(* Outage: every endpoint of the router while no source is available.      *)

\* how the three commands of the other routes failed, and what each
\* had left on stdout by then
FailedCommandsPool ==
    { [cron |-> [ok |-> FALSE, stdout |-> Blank],
       df |-> [ok |-> FALSE, stdout |-> Blank],
       sessions |-> [ok |-> FALSE, stdout |-> Blank]],
      [cron |-> [ok |-> FALSE, stdout |-> Unparsable],
       df |-> [ok |-> FALSE, stdout |-> DfOutput(DfHeader)],
       sessions |-> [ok |-> FALSE, stdout |-> Json(Arr(<<Str("s1")>>))]],
      [cron |-> [ok |-> FALSE,
                 stdout |-> Json(Arr(<<Obj([id |-> Str("a1"), name |-> Str("Nightly")])>>))],
       df |-> [ok |-> FALSE, stdout |-> DfOutput(<<DfField("df:", NaN), DfField("failed", NaN)>>)],
       sessions |-> [ok |-> FALSE, stdout |-> Unparsable]] }

FailedExecPool ==
    {outcome \in ExecOutcomePool :
        /\ outcome.kind \in {"exit", "timeout", "spawn-failure"}
        /\ outcome.kind = "exit" => outcome.stdout = Str("")
        /\ outcome.kind = "timeout" => outcome.stdout # Str("")
        /\ outcome.kind = "spawn-failure" => outcome.message # Undef}

FailingServicePool == {"erroring", "refusing", "hanging"}

InitOutage ==
    /\ now = 20 * DayMs /\ tz = 0
    /\ \E failed \in FailedCommandsPool :
          /\ cronCli = failed.cron
          /\ host = [df |-> failed.df, sessions |-> failed.sessions,
                     drafts |-> Missing, os |-> OsCounters]
    /\ cronFile = Missing
    /\ salesDb = Missing /\ leadsFile = Missing /\ batchFiles = <<>>
    /\ paymentsFile = Missing /\ metricsFile = Missing
    /\ auditDir = Missing
    /\ NoAgentDirs /\ NoLogs
    /\ services \in [Services -> FailingServicePool]
    /\ pgrep \in FailedExecPool
    /\ statusReq = NoStatusRequest
    /\ response = NoResponse

NextOutage ==
    \/ HandleCrons \/ HandleAgents \/ HandleRevenue \/ HandleAudits
    \/ HandleLeads \/ HandleSystem \/ HandleActivity
    \/ StartStatus
    \/ \E s \in Services : FetchSettles(s)
    \/ \E s \in Services : AbortFires(s)
    \/ ExecSettles
    \/ Tick
    \/ FinishStatus
    \/ Send

SpecOutage == InitOutage /\ [][NextOutage]_vars

-----------------------------------------------------------------------------
(* Outage claims.                                                          *)

-----------------------------------------------------------------------------
(* Router: all the routes over sources that are there, requests            *)
(* interleaved with one another and with changes of the sources.           *)

InitRouter ==
    /\ now = 20 * DayMs /\ tz = 0
    /\ cronCli = [ok |-> TRUE,
                  stdout |-> Json(Arr(<<AgentJob(Str("a4"), Str("Sprint Worker"), Bool(TRUE),
                                                 StateOf(Undef, Undef, Str("Completed"),
                                                         Num(now - DayMs)), Undef)>>))]
    /\ cronFile = Json(Obj([jobs |-> Arr(<<AgentJob(Str("a3"), Str("Backup"), Bool(TRUE),
                                                    Undef, Str("ollama/qwen2.5"))>>)]))
    /\ salesDb = [k |-> "db", driverOk |-> TRUE, cliOk |-> TRUE,
                  rows |-> <<SalesRow(Str("Acme"), Str("a@x.com"), Null, IsoStr(5), IsoStr(1))>>]
    /\ leadsFile = Json(Obj([leads |-> Arr(<<GeoLead(Undef, Str("b@y.org"), Undef,
                                                     Undef, Num(7))>>)]))
    /\ batchFiles = <<>>
    /\ paymentsFile = Json(Obj([payments |->
          Arr(<<Payment(Num(1), IsoStr(now), Str("Bakery"), Str("bob@shop.com"),
                        Str("cs_live_1"))>>)]))
    /\ metricsFile = Json(Obj([goal |-> Obj([total |-> Num(32)])]))
    /\ auditDir = [k |-> "dir",
                   files |-> <<AuditFile("audit-1", ".json", now, Json(Obj([score |-> Num(7)])))>>]
    /\ agentDirs = [workspaces |-> << [name |-> "sales-agent", isDirectory |-> TRUE],
                                      [name |-> "README.md", isDirectory |-> FALSE],
                                      [name |-> "max", isDirectory |-> TRUE] >>,
                    salesData |-> TRUE]
    /\ logDir = LogDirOf(<< <<"gateway", LogLine(IsoStr(5), "up")>>,
                             <<"cron", LogLine(Undef, "tick")>> >>,
                          [mtimes |-> <<3, 2, 1>>, ext |-> ".jsonl"])
    /\ host = [df |-> [ok |-> TRUE, stdout |-> DfOutput(DfRow(10485760, 5242880, 50))],
               sessions |-> [ok |-> TRUE, stdout |-> Json(Arr(<<Str("s1")>>))],
               drafts |-> [k |-> "dir", entries |-> <<"file", "directory", "file">>],
               os |-> OsCounters]
    /\ services = [s \in Services |-> "up"]
    /\ pgrep \in {outcome \in ExecOutcomePool :
                     outcome.stdout = Str("4242 ") /\ outcome.kind \in {"success", "exit"}}
    /\ statusReq = NoStatusRequest
    /\ response = NoResponse

NextRouter ==
    \/ HandleCrons \/ HandleCronStatus \/ HandleAgents \/ HandleRevenue
    \/ HandleAudits \/ HandleLeads \/ HandleSystem \/ HandleActivity
    \/ StartStatus
    \/ \E s \in Services : FetchSettles(s)
    \/ \E s \in Services : AbortFires(s)
    \/ ExecSettles
    \/ Tick
    \/ FinishStatus
    \/ Send
    \/ CliGoesDown \/ PaymentsFileRemoved
    \/ \E s \in Services : ServiceHangs(s)

SpecRouter == InitRouter /\ [][NextRouter]_vars

-----------------------------------------------------------------------------
(* Router claims.                                                          *)

\* everything a handler reads: files, directories, command outcomes,
\* services, the clock
sourceVars ==
    <<now, tz, cronCli, cronFile, salesDb, leadsFile, batchFiles, paymentsFile,
      metricsFile, auditDir, agentDirs, logDir, host, services, pgrep>>

\* the body an endpoint owes to the present state of the sources
BodyFromSources(endpoint) ==
    IF endpoint \in {"crons", "cron-status"} THEN loadCronJobs
    ELSE IF endpoint = "agents" THEN loadAgents
    ELSE IF endpoint = "revenue" THEN loadRevenuePayload
    ELSE IF endpoint = "audits" THEN auditsPayload
    ELSE IF endpoint = "leads" THEN loadLeadsPayload
    ELSE IF endpoint = "system" THEN systemPayload
    ELSE IF endpoint = "activity"
         THEN [threw |-> FALSE, events |-> loadRecentActivity,
               count |-> Len(loadRecentActivity)]
    ELSE [threw |-> FALSE,
          gateway |-> services["gateway"] = "up",
          whatsapp |-> pgrep.kind = "success" /\ pgrep.stdout.v \notin {"", " "},
          ollama |-> services["ollama"] = "up",
          checkedAt |-> IsoStr(now)]

\* a step of a request: a response is produced or sent, or the status
\* request in flight advances
RequestStep == response' # response \/ statusReq' # statusReq

\* C20: no step of any request changes a source, and every response is
\* the one the present sources and clock determine, whatever was served
\* before and whatever else is in flight.
C20_StatelessReadOnly ==
    [][ /\ RequestStep => UNCHANGED sourceVars
        /\ (response' # response /\ response' # NoResponse)
              => response' = Respond(response'.endpoint, BodyFromSources(response'.endpoint))
      ]_vars

\* /api/crons answered from jobs.json after the CLI went down, while a
\* /api/status request, one probe of it settled, waits for a service that
\* has stopped answering
C20_Witness ==
    /\ Answered("crons")
    /\ ~cronCli.ok /\ response.body.source = "file"
    /\ Waiting
    /\ \E s, t \in Services :
          /\ statusReq.probes[s].state = "settled"
          /\ services[t] = "hanging" /\ statusReq.probes[t].state = "pending"

-----------------------------------------------------------------------------
(* RevenueList: /api/revenue over logs long enough for the list of recent  *)
(* entries to be cut, and over records with odd amounts and timestamps.    *)

MaxRecords == 6
MaxOddRecords == 2

\* well-formed records, stamped at four instants of the last two days
TaggedRecordPool ==
    ({"payment"} \X
        {Payment(Num(1), IsoStr(now), Str("Bakery"), Str("bob@shop.com"), Str("cs_live_1")),
         Payment(Num(4), IsoStr(now - DayMs), Undef, Str("bob@shop.com"), Undef),
         Payment(Num(2), Num(now - 3), Str("Bakery"), Undef, Undef)})
    \cup ({"history"} \X {HistoryEntry(Num(8), IsoStr(now - 1), Undef)})

\* records whose amount or timestamp is missing or odd, and one that is not
TaggedOddRecordPool ==
    ({"payment"} \X
        {Payment(Str("abc"), IsoStr(now), Str("Bakery"), Undef, Undef),
         Payment(Num(0), IsoStr(now), Str("Bakery"), Undef, Undef),
         Payment(Num(-3), IsoStr(now), Str("Bakery"), Undef, Undef),
         Payment(Undef, IsoStr(now), Str("Bakery"), Undef, Undef),
         Payment(Bool(TRUE), IsoStr(now - 1), Str("Bakery"), Undef, Undef),
         Payment(Num(4), Str("soon"), Str("Bakery"), Undef, Undef),
         Payment(Num(4), Undef, Str("Bakery"), Undef, Undef),
         Payment(Num(4), BeyondDate, Str("Bakery"), Undef, Undef),
         Payment(Num(1), IsoStr(now), Str("Bakery"), Undef, Undef)})
    \cup ({"history"} \X
        {HistoryEntry(Null, IsoStr(now), Undef),
         HistoryEntry(Num(8), Str("soon"), Undef),
         HistoryEntry(Num(8), BeyondDate, Undef)})

InitRevenueList ==
    /\ tz = 0
    /\ now = LocalMidnight(88) + DayMs - 1
    /\ \E all \in SeqsUpTo(TaggedRecordPool, MaxRecords)
                    \cup SeqsUpTo(TaggedOddRecordPool, MaxOddRecords) :
          /\ paymentsFile = Json(Obj([payments |-> Arr(Tagged(all, "payment"))]))
          /\ metricsFile = Json(Obj([history |-> Arr(Tagged(all, "history"))]))
    /\ response = NoResponse
    /\ InitOthersForRevenue

NextRevenueList == HandleRevenue \/ Send \/ PaymentsFileRemoved \/ MetricsFileRemoved

SpecRevenueList == InitRevenueList /\ [][NextRevenueList]_vars

-----------------------------------------------------------------------------
(* Revenue list claims.                                                    *)

\* the entries of the records of both sources that are kept, in source order
keptEntries ==
    LET payments == SelectSeq(paymentRecords, LAMBDA p : ~isSyntheticPayment(p))
    IN  SelectSeq([i \in DOMAIN payments |-> paymentEntry(payments[i])]
                      \o [i \in DOMAIN historyRecords |-> historyEntry(historyRecords[i])],
                  IsRetained)

\* C21: payments holds min(5, totalCount) retained entries, those with the
\* greatest timestamps, newest first, and totalCount is the number of the
\* retained entries of both sources.
C21_FiveMostRecent ==
    Answered("revenue") =>
        LET listed == response.body.payments
        IN  /\ response.body.totalCount = Len(keptEntries)
            /\ Len(listed) = IF Len(keptEntries) < 5 THEN Len(keptEntries) ELSE 5
            /\ \A i, j \in DOMAIN listed :
                  i < j => DateParse(listed[i].timestamp) >= DateParse(listed[j].timestamp)
            /\ \A i \in DOMAIN listed :
                  Occurrences(listed, listed[i]) <= Occurrences(keptEntries, listed[i])
            /\ \A i \in DOMAIN keptEntries :
                  Occurrences(listed, keptEntries[i]) < Occurrences(keptEntries, keptEntries[i])
                      => \A j \in DOMAIN listed :
                            DateParse(keptEntries[i].timestamp) <= DateParse(listed[j].timestamp)

\* six entries are retained, from both sources, and the oldest is left out
C21_Witness ==
    /\ Answered("revenue")
    /\ response.body.totalCount = 6
    /\ Len(response.body.payments) = 5
    /\ Len(historyRecords) > 0 /\ Len(paymentRecords) > 0
    /\ \E i \in DOMAIN keptEntries :
          \A j \in DOMAIN response.body.payments :
              DateParse(keptEntries[i].timestamp) < DateParse(response.body.payments[j].timestamp)

\* the timestamp field a record of either source is read by
stampOf(record) ==
    Coalesce(Get(record, "timestamp"), Coalesce(Get(record, "date"), Get(record, "createdAt")))

\* the amount field a record of either source is read by
amountOf(record) ==
    Coalesce(Get(record, "amount"), Coalesce(Get(record, "value"),
        Coalesce(Get(record, "revenue"), Coalesce(Get(record, "total"), Num(0)))))

\* the record has an amount above zero and a timestamp that denotes an instant
WellFormed(record) ==
    /\ NumberOrZero(amountOf(record)) > 0
    /\ ~toIsoThrows(stampOf(record))
    /\ toIso(stampOf(record)) # Null

wellFormedRecords ==
    SelectSeq(SelectSeq(paymentRecords, LAMBDA p : ~isSyntheticPayment(p)), WellFormed)
        \o SelectSeq(historyRecords, WellFormed)

\* C29: /api/revenue answers, every entry it lists has an amount above zero
\* and an ISO timestamp, and the entries retained are those of the records
\* with such an amount and a timestamp that can be read: every other record
\* of either source is dropped.
C29_OnlyWellFormedRetained ==
    response.endpoint = "revenue" =>
        /\ response.outcome = "ok"
        /\ \A i \in DOMAIN response.body.payments :
              /\ response.body.payments[i].amount > 0
              /\ response.body.payments[i].timestamp.t = "string"
        /\ response.body.totalCount = Len(wellFormedRecords)

\* the same, when no numeric timestamp lies beyond the range of Date
C29_WhenStampsInRange ==
    (/\ \A i \in DOMAIN paymentRecords : ~toIsoThrows(stampOf(paymentRecords[i]))
     /\ \A i \in DOMAIN historyRecords : ~toIsoThrows(stampOf(historyRecords[i])))
        => C29_OnlyWellFormedRetained

-----------------------------------------------------------------------------
(* Order of the revenue buckets.                                           *)

\* C30: the day opens no earlier than the week and the month it lies in;
\* today is at most week, and at most month when an entry is retained.
C30_TodayWithinWeekAndMonth ==
    /\ startOfWeek <= startOfToday
    /\ startOfMonth <= startOfToday
    /\ Answered("revenue") =>
          /\ response.body.today <= response.body.week
          /\ response.body.totalCount > 0 => response.body.today <= response.body.month

\* an entry of today and an older one of this week
C30_Witness ==
    /\ Answered("revenue")
    /\ 0 < response.body.today
    /\ response.body.today < response.body.week
    /\ response.body.today < response.body.month
    /\ startOfWeek < startOfToday

\* ---------------------------------------------------------------------
\* Agent resolution as a partition of the cron jobs
\* ---------------------------------------------------------------------

RECURSIVE SumCronJobs(_)
\* the job counts of a list of agents, added up
SumCronJobs(agents) ==
    IF agents = <<>> THEN 0 ELSE agents[1].cronJobs + SumCronJobs(Tail(agents))

\* the agents of the response a job of the cron payload is counted under
agentsCounting(job) ==
    {a \in DOMAIN response.body.agents :
        \E i \in DOMAIN ownedJobs(response.body.agents[a].id) :
            ownedJobs(response.body.agents[a].id)[i] = job}

\* C22: every cron job loadCronJobs returns is attributed to exactly one agent
\* of the /api/agents response: no job is counted under two agents, each
\* agent's count is the number of jobs it owns, and the counts add up to the
\* number of cron jobs.
C22_JobsPartitioned ==
    Answered("agents") =>
        /\ \A i \in DOMAIN loadCronJobs.jobs :
              Cardinality(agentsCounting(loadCronJobs.jobs[i])) = 1
        /\ \A a \in DOMAIN response.body.agents :
              response.body.agents[a].cronJobs
                  = Len(ownedJobs(response.body.agents[a].id))
        /\ SumCronJobs(response.body.agents) = Len(loadCronJobs.jobs)

\* the same, of the listings in which no job name matches both the sprint
\* worker and the sales agent
C22_WhenNoNameMatchesBoth ==
    Answered("agents") =>
        ((\A i \in DOMAIN loadCronJobs.jobs :
            ~(isSprintJob(loadCronJobs.jobs[i]) /\ isSalesJob(loadCronJobs.jobs[i])))
            => C22_JobsPartitioned)

\* two agents answer for a listing of two jobs, one job each
C22_Witness ==
    /\ Answered("agents")
    /\ Len(response.body.agents) = 2
    /\ Len(loadCronJobs.jobs) = 2
    /\ SumCronJobs(response.body.agents) = 2

-----------------------------------------------------------------------------
(* The scan of the log directory.                                          *)

\* the files of the log directory the name pattern keeps
logFiles == IF logDir = Missing THEN <<>> ELSE SelectSeq(logDir.files, isLogFileName)

\* the lines of a file that are not empty once trimmed
nonEmptyLines(file) == SelectSeq(file.lines, LAMBDA line : line.text # "")

\* the positions of the accumulated entries that come from a file
positionsOf(file) ==
    {i \in DOMAIN accumulatedEntries :
        accumulatedEntries[i].source = file.name \o file.ext}

\* the file an accumulated entry comes from
fileOf(entry) ==
    CHOOSE f \in DOMAIN logFiles : logFiles[f].name \o logFiles[f].ext = entry.source

\* C24: the scan behind /api/activity visits the log files newest-modified
\* first, takes the last MaxLinesPerFile non-empty lines of a file at most,
\* opens no further file once EntryBudget entries are accumulated, and so
\* never accumulates more than EntryBudget - 1 + MaxLinesPerFile entries.
C24_ScanBounded ==
    Answered("activity") =>
        LET acc == accumulatedEntries
        IN  /\ Len(acc) <= EntryBudget - 1 + MaxLinesPerFile
            /\ \A i \in DOMAIN acc :
                  \E f \in DOMAIN logFiles : logFiles[f].name \o logFiles[f].ext = acc[i].source
            /\ \A i, j \in DOMAIN acc :
                  i < j => logFiles[fileOf(acc[i])].mtimeMs >= logFiles[fileOf(acc[j])].mtimeMs
            /\ \A f \in DOMAIN logFiles :
                  LET at    == positionsOf(logFiles[f])
                      lines == nonEmptyLines(logFiles[f])
                  IN  /\ Cardinality(at) <= MaxLinesPerFile
                      /\ at # {} =>
                            /\ Cardinality(at) = Min(Len(lines), MaxLinesPerFile)
                            /\ \A i, j \in at : \A k \in i..j : k \in at
                            /\ \A i \in at :
                                  LET first == CHOOSE m \in at : \A n \in at : m <= n
                                  IN  /\ first - 1 < EntryBudget
                                      /\ acc[i].line =
                                           lines[Len(lines) - Cardinality(at) + (i - first) + 1].text
                      /\ (at = {} /\ lines # <<>>) => Len(acc) >= EntryBudget
            /\ \A f, g \in DOMAIN logFiles :
                  (/\ logFiles[f].mtimeMs > logFiles[g].mtimeMs
                   /\ positionsOf(logFiles[g]) # {}
                   /\ nonEmptyLines(logFiles[f]) # <<>>)
                      => positionsOf(logFiles[f]) # {}

\* a file with more non-empty lines than are taken was cut to its last
\* lines, and the scan stopped at the file that brought the entries to the
\* budget
C24_Witness ==
    /\ Answered("activity")
    /\ Len(accumulatedEntries) = EntryBudget
    /\ \E f \in DOMAIN logFiles :
          /\ Len(nonEmptyLines(logFiles[f])) > MaxLinesPerFile
          /\ Cardinality(positionsOf(logFiles[f])) = MaxLinesPerFile

-----------------------------------------------------------------------------
(* The timestamps of the audit summaries.                                  *)

\* the documents a cache file may hold, by where their timestamps are
StampContentPool ==
    {Unparsable,
     Json(Obj([cacheId |-> Str("plain")])),
     Json(Obj([cacheId |-> Str("top"), timestamp |-> IsoStr(now)])),
     Json(Obj([cacheId |-> Str("both"), timestamp |-> Num(now - 2 * DayMs),
               report |-> Obj([timestamp |-> IsoStr(now)])])),
     Json(Obj([cacheId |-> Str("odd-top"), timestamp |-> Str("soon"),
               report |-> Obj([timestamp |-> Num(startOfToday)])])),
     Json(Obj([cacheId |-> Str("odd-both"), timestamp |-> Str("soon"),
               report |-> Obj([timestamp |-> Bool(TRUE)])])),
     Json(Obj([cacheId |-> Str("far"), timestamp |-> BeyondDate])),
     Json(Obj([cacheId |-> Str("far-report"), timestamp |-> Null,
               report |-> Obj([timestamp |-> BeyondDate])]))}

\* the i-th file of the directory, last modified yesterday or today
StampFilePool(i) ==
    {AuditFile("audit-" \o ToString(i), ".json", startOfToday - 1 + (i % 2), c) :
        c \in StampContentPool}

RECURSIVE StampFileLists(_)
StampFileLists(n) ==
    IF n = 0 THEN {<<>>}
    ELSE {Append(files, f) : files \in StampFileLists(n - 1), f \in StampFilePool(n)}

InitAuditStamps ==
    /\ tz = 0
    /\ now = LocalMidnight(88) + DayMs - 1
    /\ auditDir \in {Missing} \cup
          {[k |-> "dir", files |-> files] :
              files \in UNION {StampFileLists(n) : n \in 0..MaxAudits}}
    /\ response = NoResponse
    /\ InitOthersForAudits

SpecAuditStamps == InitAuditStamps /\ [][NextAudits]_vars

\* a timestamp field holds an instant: a number, or a string that is a date
stampParses(value) ==
    \/ value.t = "number"
    \/ value.t = "string" /\ "iso" \in DOMAIN value

\* the instant such a field holds
instantOf(value) == IF value.t = "number" THEN value.v ELSE value.iso

\* the instant the chain of C27 gives a cache file
chainInstant(file) ==
    LET top      == Get(documentOf(file), "timestamp")
        inReport == Get(Get(documentOf(file), "report"), "timestamp")
    IN  IF stampParses(top) THEN instantOf(top)
        ELSE IF stampParses(inReport) THEN instantOf(inReport)
        ELSE file.mtime

\* the timestamp fields the chain reads, up to the first that parses
fieldsRead(file) ==
    LET top      == Get(documentOf(file), "timestamp")
        inReport == Get(Get(documentOf(file), "report"), "timestamp")
    IN  IF stampParses(top) THEN {top} ELSE {top, inReport}

\* /api/audits was asked for a cache directory of JSON objects
AuditsAsked ==
    /\ response.endpoint = "audits"
    /\ \A i \in DOMAIN jsonFiles : documentOf(jsonFiles[i]).t = "object"

\* C27: every cache file is listed by /api/audits with the timestamp of the
\* chain: its top-level timestamp if that parses, else report.timestamp if
\* that parses, else its modification time; the summaries are in descending
\* timestamp order and `today` counts those at or after local midnight.
C27_TimestampChain ==
    AuditsAsked =>
        /\ response.outcome = "ok"
        /\ response.body.total = Len(jsonFiles)
        /\ \A i \in DOMAIN jsonFiles :
              \E j \in DOMAIN response.body.recent :
                  /\ response.body.recent[j].id =
                        JsString(Coalesce(Get(documentOf(jsonFiles[i]), "cacheId"),
                                          Str(jsonFiles[i].stem)))
                  /\ response.body.recent[j].timestamp = IsoStr(chainInstant(jsonFiles[i]))
        /\ \A i, j \in DOMAIN response.body.recent :
              i < j => DateParse(response.body.recent[i].timestamp)
                          >= DateParse(response.body.recent[j].timestamp)
        /\ response.body.today =
              Cardinality({i \in DOMAIN jsonFiles :
                              chainInstant(jsonFiles[i]) >= startOfToday})

\* the same, when every number the chain reads lies in the range of Date
C27_WhenStampsInRange ==
    (\A i \in DOMAIN jsonFiles :
        \A field \in fieldsRead(jsonFiles[i]) : ~toIsoThrows(field))
        => C27_TimestampChain

\* two files whose top-level timestamps do not parse: one listed with its
\* report's timestamp, the other with its modification time of yesterday
C27_Witness ==
    /\ Answered("audits")
    /\ response.body.total = 2
    /\ response.body.today = 1
    /\ response.body.recent[1].id = "odd-top"
    /\ response.body.recent[1].timestamp = IsoStr(startOfToday)
    /\ response.body.recent[2].id = "odd-both"
    /\ response.body.recent[2].timestamp = IsoStr(startOfToday - 1)

-----------------------------------------------------------------------------
(* readJsonFile on files in every condition.                               *)

\* one document for the three JSON files of the revenue and leads routes
LedgerDocument ==
    Obj([payments |-> Arr(<<Payment(Num(4), IsoStr(now), Str("Bakery"), Undef, Undef)>>),
         history |-> Arr(<<>>),
         leads |-> Arr(<<>>)])

JsonFilePool ==
    {Missing, Unreadable, Unparsable, Json(Null), Json(Arr(<<>>)), Json(LedgerDocument)}

InitReadJson ==
    /\ tz = 0
    /\ now = LocalMidnight(88) + DayMs - 1
    /\ paymentsFile \in JsonFilePool
    /\ metricsFile \in JsonFilePool
    /\ leadsFile \in JsonFilePool \ {Json(Arr(<<>>))}
    /\ InitRest
    /\ cronCli = [ok |-> FALSE, stdout |-> Blank] /\ cronFile = Missing
    /\ salesDb = Missing /\ batchFiles = <<>>
    /\ auditDir = Missing
    /\ response = NoResponse

NextReadJson ==
    \/ HandleRevenue
    \/ HandleLeads
    \/ Send
    \/ PaymentsFileRemoved
    \/ MetricsFileRemoved
    \/ LeadsFileRemoved

SpecReadJson == InitReadJson /\ [][NextReadJson]_vars

\* the file gives readJsonFile no document
NoDocument(file) == file.k \in {"missing", "unreadable", "garbage"}

\* C28: readJsonFile never raises: it returns the fallback for a file that
\* does not exist, cannot be read (removed after the existence check too) or
\* does not parse, and the parsed content otherwise; the routes that read
\* such files answer as they do for absent files.
C28_ReadJsonFileNeverRaises ==
    /\ \A file \in {paymentsFile, metricsFile, leadsFile} :
          \A fallback \in {EmptyObject, Arr(<<>>)} :
              /\ "t" \in DOMAIN readJsonFile(file, fallback)
              /\ NoDocument(file) => readJsonFile(file, fallback) = fallback
              /\ ~NoDocument(file) => readJsonFile(file, fallback) = file.v
    /\ (response.endpoint = "revenue" /\ NoDocument(paymentsFile) /\ NoDocument(metricsFile))
          => (response.outcome = "ok" /\ response.body.totalCount = 0)
    /\ (response.endpoint = "revenue" /\ paymentsFile = Json(LedgerDocument)
            /\ NoDocument(metricsFile))
          => (response.outcome = "ok" /\ response.body.totalCount = 1)
    /\ (response.endpoint = "leads" /\ NoDocument(leadsFile))
          => (response.outcome = "ok" /\ response.body.count = 0)

\* /api/revenue answered with one payment while business-metrics.json could
\* not be read
C28_Witness ==
    /\ Answered("revenue")
    /\ paymentsFile = Json(LedgerDocument)
    /\ metricsFile = Unreadable
    /\ response.body.totalCount = 1

-----------------------------------------------------------------------------
(* Disk usage from whatever df printed.                                    *)

GiB == 1048576

\* the last lines df may leave: data rows, also without the mount column or
\* with fields that are no numbers, the header alone, lines too short
DfLinePool ==
    {DfRow(t, u, p) : t \in {0, GiB, 50 * GiB}, u \in {0, 52428, 52429, GiB}, p \in {0, 37, 100}}
    \cup { DfHeader,
           SubSeq(DfRow(50 * GiB, GiB, 2), 1, 5),
           SubSeq(DfRow(50 * GiB, GiB, 2), 1, 4),
           << DfField("map", NaN), DfField("auto_home", NaN), DfField("0", Finite(0)),
              DfField("0", Finite(0)), DfField("0", Finite(0)), DfField("100%", Finite(100)) >>,
           << DfField("tmpfs", NaN), DfField("-", NaN), DfField("7", Finite(7)),
              DfField("-", NaN), DfField("-", NaN), DfField("/run", NaN) >>,
           << DfField("/dev/sda1", NaN), DfField("2097152", Finite(2 * GiB)),
              DfField("n/a", NaN), DfField("1", Finite(1)), DfField("50%", Finite(50)) >>,
           <<DfField("df:", NaN), DfField("failed", NaN)>> }

\* what safeExec returns for df: a success with its output, or a failure
\* that left nothing, only the header or an error line on stdout
DfResultPool ==
    {[ok |-> TRUE, stdout |-> DfOutput(line)] : line \in DfLinePool}
    \cup {[ok |-> TRUE, stdout |-> Blank]}
    \cup {[ok |-> FALSE, stdout |-> out] :
            out \in {Blank, DfOutput(DfHeader),
                     DfOutput(<<DfField("df:", NaN), DfField("failed", NaN)>>)}}

\* df stops working
DfFails ==
    /\ response = NoResponse
    /\ host.df.ok
    /\ host' = [host EXCEPT !.df = [ok |-> FALSE, stdout |-> Blank]]
    /\ UNCHANGED <<clockVars, cronVars, leadVars, revenueVars, auditDir,
                   agentDirs, logDir, statusVars, response>>

InitDisk ==
    /\ now = 20 * DayMs /\ tz = 0
    /\ host \in {[df |-> d, sessions |-> [ok |-> FALSE, stdout |-> Blank],
                  drafts |-> drafts, os |-> OsCounters] :
                    d \in DfResultPool,
                    drafts \in {Missing, [k |-> "dir", entries |-> <<"file", "directory">>]}}
    /\ cronCli = [ok |-> FALSE, stdout |-> Blank] /\ cronFile = Missing
    /\ salesDb = Missing /\ leadsFile = Missing /\ batchFiles = <<>>
    /\ paymentsFile = Missing /\ metricsFile = Missing
    /\ auditDir = Missing
    /\ NoAgentDirs /\ NoLogs /\ NoStatus
    /\ response = NoResponse

NextDisk == HandleSystem \/ Send \/ DfFails

SpecDisk == InitDisk /\ [][NextDisk]_vars

\* the fields of the last line of df's output
lastLineFields ==
    IF host.df.stdout = Blank THEN <<DfField("", NaN)>> ELSE host.df.stdout.last

\* g is a size in KiB given in GiB and rounded to one decimal
IsGbOf(g, kb) ==
    /\ 2 * g.tenths * GiB - GiB <= 20 * kb
    /\ 20 * kb < 2 * g.tenths * GiB + GiB

-----------------------------------------------------------------------------
(* The structured lead store: driver, sqlite CLI, nothing.                 *)

\* what the driver reads from the table
DriverRowsPool ==
    { <<>>,
      <<SalesRow(Str("Acme"), Str("a@x.com"), Null, IsoStr(5), IsoStr(1))>>,
      << SalesRow(Str("Acme"), Str("a@x.com"), Null, IsoStr(5), IsoStr(1)),
         SalesRow(Str("Bolt"), Str("b@y.org"), Str("bolt.io"), Null, IsoStr(2)) >> }

\* what the sqlite3 command prints
CliStdoutPool ==
    { Blank, Unparsable, Json(Null), Json(Num(5)), Json(Arr(<<>>)),
      Json(Arr(<<SalesRow(Str("Cord"), Str("c@z.net"), Null, Null, IsoStr(3))>>)),
      Json(Arr(<< SalesRow(Str("Cord"), Str("c@z.net"), Null, Null, IsoStr(3)),
                  Null, Num(1) >>)) }

InitLeadStore ==
    /\ salesDb \in {Missing} \cup
          {[k |-> "db", driverOk |-> d, cliOk |-> c, rows |-> rows, cliStdout |-> out] :
              d \in BOOLEAN, c \in BOOLEAN, rows \in DriverRowsPool, out \in CliStdoutPool}
    /\ leadsFile = Missing /\ batchFiles = <<>>
    /\ response = NoResponse
    /\ InitOthersForLeads

NextLeadStore == HandleLeads \/ Send \/ DriverBreaks

SpecLeadStore == InitLeadStore /\ [][NextLeadStore]_vars

\* the rows the fallback chain of C25 yields
chainRows ==
    IF salesDb.k = "missing" THEN <<>>
    ELSE IF salesDb.driverOk THEN salesDb.rows
    ELSE IF salesDb.cliOk /\ salesDb.cliStdout.k = "json" /\ salesDb.cliStdout.v.t = "array"
         THEN SelectSeq(salesDb.cliStdout.v.v, IsObjectLike)
    ELSE <<>>

\* C25: the structured lead store is read through a strict chain: without a
\* database file nothing is listed and no command runs; when the driver
\* loads and its query succeeds its rows are used, also when there are
\* none, and the sqlite CLI never runs; when the driver is unavailable or
\* throws the CLI runs exactly once, and a failing, empty or unparsable
\* result of it gives no rows.
C25_StrictFallbackChain ==
    response.endpoint = "leads" =>
        /\ response.outcome = "ok"
        /\ response.body.leads = mergeLeads([i \in DOMAIN chainRows |-> salesDbLead(chainRows[i])])
        /\ salesDb.k = "missing" => (sqliteCliRuns = 0 /\ response.body.leads = <<>>)
        /\ (salesDb.k = "db" /\ salesDb.driverOk) =>
              /\ sqliteCliRuns = 0
              /\ response.body.count = Len(salesDb.rows)
        /\ (salesDb.k = "db" /\ ~salesDb.driverOk) =>
              /\ sqliteCliRuns = 1
              /\ (~salesDb.cliOk \/ salesDb.cliStdout \in {Blank, Unparsable})
                    => response.body.leads = <<>>

\* the driver found no rows while the sqlite CLI would have printed one:
\* nothing is listed
C25_Witness ==
    /\ Answered("leads")
    /\ salesDb.k = "db" /\ salesDb.driverOk /\ salesDb.rows = <<>>
    /\ salesDb.cliOk /\ salesDb.cliStdout.k = "json"
    /\ salesDb.cliStdout.v.t = "array" /\ Len(salesDb.cliStdout.v.v) = 1
    /\ response.body.leads = <<>>

-----------------------------------------------------------------------------
(* Requests during which an external process deletes a file the request    *)
(* has listed and not yet examined.                                        *)

RemoveAt(seq, i) == SubSeq(seq, 1, i - 1) \o SubSeq(seq, i + 1, Len(seq))

\* a request that has listed a directory and not yet examined its files
Reading(endpoint, statThrows) ==
    [endpoint |-> endpoint, outcome |-> "reading", statThrows |-> statThrows]

IsReading == response # NoResponse /\ response.outcome = "reading"

\* GET /api/audits has listed the cache directory (line 179) when a file is
\* deleted: statSync of line 183 is outside any try and throws ENOENT for a
\* file the filter kept
AuditFileDeletedAfterListing ==
    /\ response = NoResponse
    /\ auditDir # Missing
    /\ \E i \in DOMAIN auditDir.files :
          /\ auditDir' = [auditDir EXCEPT !.files = RemoveAt(@, i)]
          /\ response' = Reading("audits", auditDir.files[i].ext = ".json")
    /\ UNCHANGED <<restVars, clockVars, cronVars, leadVars, revenueVars>>

\* GET /api/activity has listed the log directory (line 712) when a file is
\* deleted: statSync of line 719 is outside any try and throws ENOENT for a
\* file the filter kept
LogFileDeletedAfterListing ==
    /\ response = NoResponse
    /\ logDir # Missing
    /\ \E i \in DOMAIN logDir.files :
          /\ logDir' = [logDir EXCEPT !.files = RemoveAt(@, i)]
          /\ response' = Reading("activity", isLogFileName(logDir.files[i]))
    /\ UNCHANGED <<clockVars, cronVars, leadVars, revenueVars, auditDir,
                   agentDirs, host, statusVars>>

\* GET /api/leads has listed the prospect files (line 475) when one is
\* deleted: the comparator catches the failing statSync (lines 479-483) and
\* readJsonFile returns [] for the file
BatchFileDeletedAfterListing ==
    /\ response = NoResponse
    /\ \E i \in DOMAIN batchFiles :
          /\ batchFiles' = RemoveAt(batchFiles, i)
          /\ response' = Reading("leads", FALSE)
    /\ UNCHANGED <<restVars, clockVars, cronVars, salesDb, leadsFile, revenueVars, auditDir>>

\* what a request of the three routes computes from the files it finds
payloadOf(endpoint) ==
    IF endpoint = "audits" THEN auditsPayload
    ELSE IF endpoint = "activity"
    THEN [threw |-> FALSE, events |-> loadRecentActivity, count |-> Len(loadRecentActivity)]
    ELSE loadLeadsPayload

\* the request goes on to examine the files it listed
FinishReading ==
    /\ IsReading
    /\ response' = IF response.statThrows THEN Respond(response.endpoint, Threw)
                   ELSE Respond(response.endpoint, payloadOf(response.endpoint))
    /\ UNCHANGED <<restVars, clockVars, cronVars, leadVars, revenueVars, auditDir>>

InitDeletions ==
    /\ tz = 0
    /\ now = LocalMidnight(88) + DayMs - 1
    /\ auditDir \in
          {[k |-> "dir",
            files |-> << AuditFile("audit-1", ".json", now - DayMs, c),
                         AuditFile("notes-2", ".txt", now, Unparsable) >>] :
              c \in {Unparsable,
                     Json(Obj([cacheId |-> Str("top"), timestamp |-> IsoStr(now)]))}}
    /\ logDir \in
          {LogDirOf(<< <<"gateway", LogLine(IsoStr(5), "up")>>,
                       <<"cron", LogLine(Undef, "tick")>>,
                       <<"archive", LogLine(IsoStr(7), "kept")>> >>, shape) :
              shape \in LogDirShapes}
    /\ batchFiles \in
          {BatchDir(<< <<"batch1", BatchRecord(Str("Acme"), Undef, Str(""))>>,
                       <<"batch2", BatchRecord(Str("c"), Undef, Str("a|b"))>> >>, odd) :
              odd \in {"none", "garbage"}}
    /\ salesDb = Missing /\ leadsFile = Missing
    /\ cronCli = [ok |-> FALSE, stdout |-> Blank] /\ cronFile = Missing
    /\ paymentsFile = Missing /\ metricsFile = Missing
    /\ NoAgentDirs /\ NoHost /\ NoStatus
    /\ response = NoResponse

NextDeletions ==
    \/ HandleAudits
    \/ HandleActivity
    \/ HandleLeads
    \/ AuditFileDeletedAfterListing
    \/ LogFileDeletedAfterListing
    \/ BatchFileDeletedAfterListing
    \/ FinishReading
    \/ Send

SpecDeletions == InitDeletions /\ [][NextDeletions]_vars

\* C23: when an audit cache file, a log file or a batch export file is
\* deleted between the directory listing and its stat or read, the request
\* still answers, with the body of a request that never saw the file.
C23_DeletedFileOmitted ==
    [][IsReading =>
          /\ response'.outcome = "ok"
          /\ response' = Respond(response.endpoint, payloadOf(response.endpoint))]_vars

\* the same, of the batch export files alone
C23_BatchFileOmitted ==
    [][(IsReading /\ response.endpoint = "leads") =>
          /\ response'.outcome = "ok"
          /\ response' = Respond("leads", loadLeadsPayload)]_vars

====
